---- MODULE Spec2Model ----
(***************************************************************************)
(* Model of prizem-io/routerstore (src/routes.go): the RouteMux trie,      *)
(* AddRoute and Match.                                                     *)
(*                                                                         *)
(* Strings are sequences of one-character strings, so that slicing,        *)
(* strings.Split, strings.IndexByte and the slash trimming are computed as *)
(* the code computes them.  Pointers to route nodes are indices into the   *)
(* sequence nodes; the nil pointer is 0.  A nil interface{} is NilData.    *)
(***************************************************************************)
EXTENDS Integers, Sequences, FiniteSets, TLC

VARIABLES
    methods,         \* RouteMux.methods: method token -> root route
    nodes,           \* the heap of route structs
    history,         \* the AddRoute calls made so far, with their results
    pc,              \* position of the Match call: idle, loop, end, done
    call,            \* arguments of the Match call in progress
    r,               \* Match: the current route
    requestPath,     \* Match: the remaining request path
    wildcard,        \* Match: a wildcard snapshot was taken
    wildcardResult,  \* Match: the snapshot (Data and the Params slice header)
    wildcardPath,    \* Match: the remaining path at the snapshot
    result,          \* the caller's Result buffer
    heap,            \* backing array of result.Params once it outgrew result.params
    walk,            \* Match: the loop iterations made so far
    err,             \* what Match returned
    peer             \* a second Match call on the same multiplexer, with its
                     \* own Result: its arguments and its frame

vars == <<methods, nodes, history, pc, call, r, requestPath, wildcard,
          wildcardResult, wildcardPath, result, heap, walk, err, peer>>

(***************************************************************************)
(* Bounds and program constants                                            *)
(***************************************************************************)
MaxRoutes == 3

InlineCap == 10

StaticSliceMax == 5

NilRoute == 0

NilData == 0

EmptyString == <<>>

ErrNotFound == "Route not found"

ErrBadSyntax == "Path contained invalid syntax"

ErrWildcardMisplaced == "Wildcard must be at the end of the path"

ErrRegexp == "error parsing regexp"

ErrIndexOutOfRange == "panic: index out of range"

NoError == "nil"

(***************************************************************************)
(* String primitives                                                       *)
(***************************************************************************)
\* s[from:] of Go, with from counted from 0.
SliceFrom(s, from) == SubSeq(s, from + 1, Len(s))

\* s[:to] of Go, with to counted from 0.
SliceTo(s, to) == SubSeq(s, 1, to)

\* strings.IndexByte / strings.Index for a one-byte needle: the index,
\* counted from 0, of the first occurrence, or -1.
IndexByte(s, c) ==
    IF \E i \in 1..Len(s) : s[i] = c
    THEN (CHOOSE i \in 1..Len(s) : s[i] = c /\ \A j \in 1..(i - 1) : s[j] # c) - 1
    ELSE -1

RECURSIVE TrimLeft(_)
TrimLeft(s) ==
    IF Len(s) > 0 /\ s[1] = "/" THEN TrimLeft(SliceFrom(s, 1)) ELSE s

\* TrimRight with an "if" for the "for" of line 119: one slash at most.
TrimRight_Once(s) ==
    IF Len(s) > 0 /\ s[Len(s)] = "/" THEN SliceTo(s, Len(s) - 1) ELSE s

RECURSIVE TrimRight(_)
TrimRight(s) ==
    IF Len(s) > 0 /\ s[Len(s)] = "/" THEN TrimRight(SliceTo(s, Len(s) - 1)) ELSE s

\* The two trimming loops at the head of AddRoute and of Match.
TrimSlashes(s) == TrimRight(TrimLeft(s))

\* strings.Split(s, "/"): the substrings between the slashes, empty ones kept.
RECURSIVE Split(_)
Split(s) ==
    LET index == IndexByte(s, "/")
    IN  IF index < 0 THEN <<s>>
        ELSE <<SliceTo(s, index)>> \o Split(SliceFrom(s, index + 1))

(***************************************************************************)
(* regexp.Compile and Regexp.MatchString                                   *)
(*                                                                         *)
(* The expression is parsed as regexp/syntax parses it under the Perl      *)
(* flags: a loop over the expression keeps a stack of parsed pieces, an    *)
(* opening parenthesis and a vertical bar are pseudo-operators on the      *)
(* stack, a repetition replaces the piece on top of the stack, the flags   *)
(* i m s U set by "(?flags)" last to the end of the group.  The parser     *)
(* reads groups "(...)", "(?:...)", "(?flags:...)", "(?P<name>...)" and    *)
(* "(?<name>...)", the repetitions * + ? {n} {n,} {n,m} and their lazy     *)
(* forms, "." ^ $ \A \z \b \B, \Q...\E, bracket classes with ranges,       *)
(* negation, POSIX classes "[:alpha:]", Perl classes \d \D \s \S \w \W     *)
(* and Unicode classes \pN \p{Name}, and the escapes of punctuation, of    *)
(* control characters, of octal and of hexadecimal codes.  The library     *)
(* read is that of Go 1.22 to 1.24 (Unicode 15.0.0).                       *)
(*                                                                         *)
(* A match is a set of positions: MatchSet takes the positions P of the    *)
(* text s at which a piece may start and gives the positions at which it   *)
(* may end.  MatchString is unanchored: it accepts when some substring     *)
(* matches.                                                                *)
(*                                                                         *)
(* The text and the expression are made of the printable ASCII characters  *)
(* and of the tab, the line feed, the form feed and the carriage return; a *)
(* class or an escape may name any code point.  The flag U changes the     *)
(* match found, never whether there is one.  The limits of the parser on   *)
(* the size of the program and on the depth of nesting are beyond the      *)
(* expressions used here.                                                  *)
(***************************************************************************)
\* The printable ASCII characters in code order, the space (32) first.  The
\* grave accent (96) cannot be written in a string here: "grave" holds its
\* place and equals no character.
Ascii ==
    << " ", "!", "\"", "#", "$", "%", "&", "'", "(", ")", "*", "+", ",", "-",
       ".", "/", "0", "1", "2", "3", "4", "5", "6", "7", "8", "9", ":", ";",
       "<", "=", ">", "?", "@", "A", "B", "C", "D", "E", "F", "G", "H", "I",
       "J", "K", "L", "M", "N", "O", "P", "Q", "R", "S", "T", "U", "V", "W",
       "X", "Y", "Z", "[", "\\", "]", "^", "_", "grave", "a", "b", "c", "d", "e",
       "f", "g", "h", "i", "j", "k", "l", "m", "n", "o", "p", "q", "r", "s",
       "t", "u", "v", "w", "x", "y", "z", "{", "|", "}", "~" >>

Printable == {Ascii[i] : i \in 1..Len(Ascii)}

\* The control characters a text may hold.
Controls == {"\t", "\n", "\f", "\r"}

\* The characters of texts and of expressions.
AsciiSet == Printable \cup Controls

\* The codes of the characters.
CodeTable ==
    [c \in AsciiSet |->
        CASE c = "\t" -> 9
          [] c = "\n" -> 10
          [] c = "\f" -> 12
          [] c = "\r" -> 13
          [] OTHER -> 31 + (CHOOSE i \in 1..Len(Ascii) : Ascii[i] = c)]

\* The code of a character, 0 for a character outside AsciiSet.
Code(c) == IF c \in DOMAIN CodeTable THEN CodeTable[c] ELSE 0

\* The characters from a to b.
CharsIn(a, b) == {c \in AsciiSet : Code(a) <= Code(c) /\ Code(c) <= Code(b)}

Digits == CharsIn("0", "9")

Upper == CharsIn("A", "Z")

Lower == CharsIn("a", "z")

Letters == Upper \cup Lower

HexDigits == Digits \cup CharsIn("a", "f") \cup CharsIn("A", "F")

\* isalnum, and the members of \w.
IsAlnum(c) == c \in Digits \cup Letters

WordChars == Digits \cup Letters \cup {"_"}

\* [:punct:], and the symbols (category S) among it.
Punct == Printable \ (Digits \cup Letters \cup {" "})

\* The members of \s.
Spaces == {" ", "\t", "\n", "\f", "\r"}

Symbols == {"$", "+", "<", "=", ">", "^", "grave", "|", "~"}

\* unicode.MaxRune.
MaxRune == 1114111

\* The largest count of a repetition, nested counts multiplied.
MaxRepeat == 1000

\* parseInt gives up on a number of more than eight digits.
MaxInt == 100000000

\* The least member of a set of numbers, 0 for the empty set.
First(S) == IF S = {} THEN 0 ELSE CHOOSE i \in S : \A j \in S : i <= j

\* strings.Index from index t on, for needles of one and of two characters:
\* the index of the first occurrence, 0 when there is none.
IndexRune(e, t, c) == First({k \in t..Len(e) : e[k] = c})

Index(e, t, c, d) ==
    First({k \in t..(Len(e) - 1) : e[k] = c /\ e[k + 1] = d})

(***************************************************************************)
(* Case folding: unicode.SimpleFold.  A letter folds to its other case;    *)
(* the orbits of k and of s also hold the Kelvin sign and the long s.      *)
(***************************************************************************)
SwapCase(c) ==
    IF c \in Upper THEN Ascii[Code(c) + 32 - 31]
    ELSE IF c \in Lower THEN Ascii[Code(c) - 32 - 31]
    ELSE c

FoldSet(S) == S \cup {SwapCase(c) : c \in S}

Orbit(c) ==
    {Code(c), Code(SwapCase(c))}
        \cup (IF c \in {"k", "K"} THEN {8490} ELSE {})
        \cup (IF c \in {"s", "S"} THEN {383} ELSE {})

(***************************************************************************)
(* The parsed pieces (syntax.Regexp).  A piece that consumes a character   *)
(* is a class: a list of items, each a range of codes or a set of          *)
(* characters, and a negation.                                             *)
(***************************************************************************)
\* syntax.Perl, the flags regexp.Compile starts with.
Perl ==
    [foldCase |-> FALSE, oneLine |-> TRUE, dotNL |-> FALSE,
     nonGreedy |-> FALSE]

Node(op, items, neg, min, max, subs, flags, cap) ==
    [op |-> op, items |-> items, neg |-> neg, min |-> min, max |-> max,
     subs |-> subs, flags |-> flags, cap |-> cap]

\* A piece without operands: the empty match, an anchor, a boundary, a
\* vertical bar.  The vertical bar and the opening parenthesis are the
\* pseudo-operators; the parenthesis keeps the flags in force before it and
\* whether it captures.
OpNode(op) == Node(op, <<>>, FALSE, 0, 0, <<>>, Perl, FALSE)

ClassNode(items, neg) ==
    Node("charClass", items, neg, 0, 0, <<>>, Perl, FALSE)

Range(lo, hi, fold) == [lo |-> lo, hi |-> hi, fold |-> fold, set |-> {}]

Group(set) == [lo |-> 1, hi |-> 0, fold |-> FALSE, set |-> set]

\* appendGroup: the set, folded under the flag i, negated for a negative
\* sign.
appendGroup(set, positive, fold) ==
    LET negate(folded) == IF positive THEN folded ELSE AsciiSet \ folded
    IN  Group(negate(IF fold THEN FoldSet(set) ELSE set))

\* A character is in a class when one of its items has it, or none does
\* and the class is negated; a folded range has it when the range has a
\* code of its orbit.
ClassHas(re, c) ==
    LET has(item) ==
            \/ c \in item.set
            \/ \E o \in (IF item.fold THEN Orbit(c) ELSE {Code(c)}) :
                  item.lo <= o /\ o <= item.hi
    IN  (\E k \in 1..Len(re.items) : has(re.items[k])) # re.neg

\* The POSIX classes [:name:] and their members.
posixGroup ==
    {
      [name |-> <<"a", "l", "n", "u", "m">>,
       set |-> Digits \cup Letters],
      [name |-> <<"a", "l", "p", "h", "a">>,
       set |-> Letters],
      [name |-> <<"a", "s", "c", "i", "i">>,
       set |-> AsciiSet],
      [name |-> <<"b", "l", "a", "n", "k">>,
       set |-> {" ", "\t"}],
      [name |-> <<"c", "n", "t", "r", "l">>,
       set |-> Controls],
      [name |-> <<"d", "i", "g", "i", "t">>,
       set |-> Digits],
      [name |-> <<"g", "r", "a", "p", "h">>,
       set |-> Printable \ {" "}],
      [name |-> <<"l", "o", "w", "e", "r">>,
       set |-> Lower],
      [name |-> <<"p", "r", "i", "n", "t">>,
       set |-> Printable],
      [name |-> <<"p", "u", "n", "c", "t">>,
       set |-> Punct],
      [name |-> <<"s", "p", "a", "c", "e">>,
       set |-> Spaces],
      [name |-> <<"u", "p", "p", "e", "r">>,
       set |-> Upper],
      [name |-> <<"w", "o", "r", "d">>,
       set |-> WordChars],
      [name |-> <<"x", "d", "i", "g", "i", "t">>,
       set |-> HexDigits]
    }

\* The Unicode general categories and their members.
Categories ==
    {
      [name |-> <<"C">>, set |-> Controls],
      [name |-> <<"C", "c">>, set |-> Controls],
      [name |-> <<"C", "f">>, set |-> {}],
      [name |-> <<"C", "o">>, set |-> {}],
      [name |-> <<"C", "s">>, set |-> {}],
      [name |-> <<"L">>, set |-> Letters],
      [name |-> <<"L", "l">>, set |-> Lower],
      [name |-> <<"L", "m">>, set |-> {}],
      [name |-> <<"L", "o">>, set |-> {}],
      [name |-> <<"L", "t">>, set |-> {}],
      [name |-> <<"L", "u">>, set |-> Upper],
      [name |-> <<"M">>, set |-> {}],
      [name |-> <<"M", "c">>, set |-> {}],
      [name |-> <<"M", "e">>, set |-> {}],
      [name |-> <<"M", "n">>, set |-> {}],
      [name |-> <<"N">>, set |-> Digits],
      [name |-> <<"N", "d">>, set |-> Digits],
      [name |-> <<"N", "l">>, set |-> {}],
      [name |-> <<"N", "o">>, set |-> {}],
      [name |-> <<"P">>, set |-> Punct \ Symbols],
      [name |-> <<"P", "c">>, set |-> {"_"}],
      [name |-> <<"P", "d">>, set |-> {"-"}],
      [name |-> <<"P", "e">>, set |-> {")", "]", "}"}],
      [name |-> <<"P", "f">>, set |-> {}],
      [name |-> <<"P", "i">>, set |-> {}],
      [name |-> <<"P", "o">>, set |-> (Punct \ Symbols) \ {"_", "-", "(", ")", "[", "]", "{", "}"}],
      [name |-> <<"P", "s">>, set |-> {"(", "[", "{"}],
      [name |-> <<"S">>, set |-> Symbols],
      [name |-> <<"S", "c">>, set |-> {"$"}],
      [name |-> <<"S", "k">>, set |-> {"^", "grave"}],
      [name |-> <<"S", "m">>, set |-> {"+", "<", "=", ">", "|", "~"}],
      [name |-> <<"S", "o">>, set |-> {}],
      [name |-> <<"Z">>, set |-> {" "}],
      [name |-> <<"Z", "l">>, set |-> {}],
      [name |-> <<"Z", "p">>, set |-> {}],
      [name |-> <<"Z", "s">>, set |-> {" "}]
    }

\* The names of the Unicode scripts (Unicode 15.0.0).  The characters are
\* members of two of them: the letters are Latin, all the rest is Common.
ScriptNames ==
    {
      <<"A", "d", "l", "a", "m">>, <<"A", "h", "o", "m">>,
      <<"A", "n", "a", "t", "o", "l", "i", "a", "n", "_", "H", "i", "e", "r", "o", "g", "l", "y", "p", "h", "s">>,
      <<"A", "r", "a", "b", "i", "c">>,
      <<"A", "r", "m", "e", "n", "i", "a", "n">>,
      <<"A", "v", "e", "s", "t", "a", "n">>,
      <<"B", "a", "l", "i", "n", "e", "s", "e">>,
      <<"B", "a", "m", "u", "m">>,
      <<"B", "a", "s", "s", "a", "_", "V", "a", "h">>,
      <<"B", "a", "t", "a", "k">>, <<"B", "e", "n", "g", "a", "l", "i">>,
      <<"B", "h", "a", "i", "k", "s", "u", "k", "i">>,
      <<"B", "o", "p", "o", "m", "o", "f", "o">>,
      <<"B", "r", "a", "h", "m", "i">>,
      <<"B", "r", "a", "i", "l", "l", "e">>,
      <<"B", "u", "g", "i", "n", "e", "s", "e">>,
      <<"B", "u", "h", "i", "d">>,
      <<"C", "a", "n", "a", "d", "i", "a", "n", "_", "A", "b", "o", "r", "i", "g", "i", "n", "a", "l">>,
      <<"C", "a", "r", "i", "a", "n">>,
      <<"C", "a", "u", "c", "a", "s", "i", "a", "n", "_", "A", "l", "b", "a", "n", "i", "a", "n">>,
      <<"C", "h", "a", "k", "m", "a">>, <<"C", "h", "a", "m">>,
      <<"C", "h", "e", "r", "o", "k", "e", "e">>,
      <<"C", "h", "o", "r", "a", "s", "m", "i", "a", "n">>,
      <<"C", "o", "m", "m", "o", "n">>, <<"C", "o", "p", "t", "i", "c">>,
      <<"C", "u", "n", "e", "i", "f", "o", "r", "m">>,
      <<"C", "y", "p", "r", "i", "o", "t">>,
      <<"C", "y", "p", "r", "o", "_", "M", "i", "n", "o", "a", "n">>,
      <<"C", "y", "r", "i", "l", "l", "i", "c">>,
      <<"D", "e", "s", "e", "r", "e", "t">>,
      <<"D", "e", "v", "a", "n", "a", "g", "a", "r", "i">>,
      <<"D", "i", "v", "e", "s", "_", "A", "k", "u", "r", "u">>,
      <<"D", "o", "g", "r", "a">>,
      <<"D", "u", "p", "l", "o", "y", "a", "n">>,
      <<"E", "g", "y", "p", "t", "i", "a", "n", "_", "H", "i", "e", "r", "o", "g", "l", "y", "p", "h", "s">>,
      <<"E", "l", "b", "a", "s", "a", "n">>,
      <<"E", "l", "y", "m", "a", "i", "c">>,
      <<"E", "t", "h", "i", "o", "p", "i", "c">>,
      <<"G", "e", "o", "r", "g", "i", "a", "n">>,
      <<"G", "l", "a", "g", "o", "l", "i", "t", "i", "c">>,
      <<"G", "o", "t", "h", "i", "c">>,
      <<"G", "r", "a", "n", "t", "h", "a">>, <<"G", "r", "e", "e", "k">>,
      <<"G", "u", "j", "a", "r", "a", "t", "i">>,
      <<"G", "u", "n", "j", "a", "l", "a", "_", "G", "o", "n", "d", "i">>,
      <<"G", "u", "r", "m", "u", "k", "h", "i">>, <<"H", "a", "n">>,
      <<"H", "a", "n", "g", "u", "l">>,
      <<"H", "a", "n", "i", "f", "i", "_", "R", "o", "h", "i", "n", "g", "y", "a">>,
      <<"H", "a", "n", "u", "n", "o", "o">>,
      <<"H", "a", "t", "r", "a", "n">>, <<"H", "e", "b", "r", "e", "w">>,
      <<"H", "i", "r", "a", "g", "a", "n", "a">>,
      <<"I", "m", "p", "e", "r", "i", "a", "l", "_", "A", "r", "a", "m", "a", "i", "c">>,
      <<"I", "n", "h", "e", "r", "i", "t", "e", "d">>,
      <<"I", "n", "s", "c", "r", "i", "p", "t", "i", "o", "n", "a", "l", "_", "P", "a", "h", "l", "a", "v", "i">>,
      <<"I", "n", "s", "c", "r", "i", "p", "t", "i", "o", "n", "a", "l", "_", "P", "a", "r", "t", "h", "i", "a", "n">>,
      <<"J", "a", "v", "a", "n", "e", "s", "e">>,
      <<"K", "a", "i", "t", "h", "i">>,
      <<"K", "a", "n", "n", "a", "d", "a">>,
      <<"K", "a", "t", "a", "k", "a", "n", "a">>, <<"K", "a", "w", "i">>,
      <<"K", "a", "y", "a", "h", "_", "L", "i">>,
      <<"K", "h", "a", "r", "o", "s", "h", "t", "h", "i">>,
      <<"K", "h", "i", "t", "a", "n", "_", "S", "m", "a", "l", "l", "_", "S", "c", "r", "i", "p", "t">>,
      <<"K", "h", "m", "e", "r">>, <<"K", "h", "o", "j", "k", "i">>,
      <<"K", "h", "u", "d", "a", "w", "a", "d", "i">>, <<"L", "a", "o">>,
      <<"L", "a", "t", "i", "n">>, <<"L", "e", "p", "c", "h", "a">>,
      <<"L", "i", "m", "b", "u">>,
      <<"L", "i", "n", "e", "a", "r", "_", "A">>,
      <<"L", "i", "n", "e", "a", "r", "_", "B">>, <<"L", "i", "s", "u">>,
      <<"L", "y", "c", "i", "a", "n">>, <<"L", "y", "d", "i", "a", "n">>,
      <<"M", "a", "h", "a", "j", "a", "n", "i">>,
      <<"M", "a", "k", "a", "s", "a", "r">>,
      <<"M", "a", "l", "a", "y", "a", "l", "a", "m">>,
      <<"M", "a", "n", "d", "a", "i", "c">>,
      <<"M", "a", "n", "i", "c", "h", "a", "e", "a", "n">>,
      <<"M", "a", "r", "c", "h", "e", "n">>,
      <<"M", "a", "s", "a", "r", "a", "m", "_", "G", "o", "n", "d", "i">>,
      <<"M", "e", "d", "e", "f", "a", "i", "d", "r", "i", "n">>,
      <<"M", "e", "e", "t", "e", "i", "_", "M", "a", "y", "e", "k">>,
      <<"M", "e", "n", "d", "e", "_", "K", "i", "k", "a", "k", "u", "i">>,
      <<"M", "e", "r", "o", "i", "t", "i", "c", "_", "C", "u", "r", "s", "i", "v", "e">>,
      <<"M", "e", "r", "o", "i", "t", "i", "c", "_", "H", "i", "e", "r", "o", "g", "l", "y", "p", "h", "s">>,
      <<"M", "i", "a", "o">>, <<"M", "o", "d", "i">>,
      <<"M", "o", "n", "g", "o", "l", "i", "a", "n">>, <<"M", "r", "o">>,
      <<"M", "u", "l", "t", "a", "n", "i">>,
      <<"M", "y", "a", "n", "m", "a", "r">>,
      <<"N", "a", "b", "a", "t", "a", "e", "a", "n">>,
      <<"N", "a", "g", "_", "M", "u", "n", "d", "a", "r", "i">>,
      <<"N", "a", "n", "d", "i", "n", "a", "g", "a", "r", "i">>,
      <<"N", "e", "w", "_", "T", "a", "i", "_", "L", "u", "e">>,
      <<"N", "e", "w", "a">>, <<"N", "k", "o">>, <<"N", "u", "s", "h", "u">>,
      <<"N", "y", "i", "a", "k", "e", "n", "g", "_", "P", "u", "a", "c", "h", "u", "e", "_", "H", "m", "o", "n", "g">>,
      <<"O", "g", "h", "a", "m">>,
      <<"O", "l", "_", "C", "h", "i", "k", "i">>,
      <<"O", "l", "d", "_", "H", "u", "n", "g", "a", "r", "i", "a", "n">>,
      <<"O", "l", "d", "_", "I", "t", "a", "l", "i", "c">>,
      <<"O", "l", "d", "_", "N", "o", "r", "t", "h", "_", "A", "r", "a", "b", "i", "a", "n">>,
      <<"O", "l", "d", "_", "P", "e", "r", "m", "i", "c">>,
      <<"O", "l", "d", "_", "P", "e", "r", "s", "i", "a", "n">>,
      <<"O", "l", "d", "_", "S", "o", "g", "d", "i", "a", "n">>,
      <<"O", "l", "d", "_", "S", "o", "u", "t", "h", "_", "A", "r", "a", "b", "i", "a", "n">>,
      <<"O", "l", "d", "_", "T", "u", "r", "k", "i", "c">>,
      <<"O", "l", "d", "_", "U", "y", "g", "h", "u", "r">>,
      <<"O", "r", "i", "y", "a">>, <<"O", "s", "a", "g", "e">>,
      <<"O", "s", "m", "a", "n", "y", "a">>,
      <<"P", "a", "h", "a", "w", "h", "_", "H", "m", "o", "n", "g">>,
      <<"P", "a", "l", "m", "y", "r", "e", "n", "e">>,
      <<"P", "a", "u", "_", "C", "i", "n", "_", "H", "a", "u">>,
      <<"P", "h", "a", "g", "s", "_", "P", "a">>,
      <<"P", "h", "o", "e", "n", "i", "c", "i", "a", "n">>,
      <<"P", "s", "a", "l", "t", "e", "r", "_", "P", "a", "h", "l", "a", "v", "i">>,
      <<"R", "e", "j", "a", "n", "g">>, <<"R", "u", "n", "i", "c">>,
      <<"S", "a", "m", "a", "r", "i", "t", "a", "n">>,
      <<"S", "a", "u", "r", "a", "s", "h", "t", "r", "a">>,
      <<"S", "h", "a", "r", "a", "d", "a">>,
      <<"S", "h", "a", "v", "i", "a", "n">>,
      <<"S", "i", "d", "d", "h", "a", "m">>,
      <<"S", "i", "g", "n", "W", "r", "i", "t", "i", "n", "g">>,
      <<"S", "i", "n", "h", "a", "l", "a">>,
      <<"S", "o", "g", "d", "i", "a", "n">>,
      <<"S", "o", "r", "a", "_", "S", "o", "m", "p", "e", "n", "g">>,
      <<"S", "o", "y", "o", "m", "b", "o">>,
      <<"S", "u", "n", "d", "a", "n", "e", "s", "e">>,
      <<"S", "y", "l", "o", "t", "i", "_", "N", "a", "g", "r", "i">>,
      <<"S", "y", "r", "i", "a", "c">>,
      <<"T", "a", "g", "a", "l", "o", "g">>,
      <<"T", "a", "g", "b", "a", "n", "w", "a">>,
      <<"T", "a", "i", "_", "L", "e">>,
      <<"T", "a", "i", "_", "T", "h", "a", "m">>,
      <<"T", "a", "i", "_", "V", "i", "e", "t">>,
      <<"T", "a", "k", "r", "i">>, <<"T", "a", "m", "i", "l">>,
      <<"T", "a", "n", "g", "s", "a">>, <<"T", "a", "n", "g", "u", "t">>,
      <<"T", "e", "l", "u", "g", "u">>, <<"T", "h", "a", "a", "n", "a">>,
      <<"T", "h", "a", "i">>, <<"T", "i", "b", "e", "t", "a", "n">>,
      <<"T", "i", "f", "i", "n", "a", "g", "h">>,
      <<"T", "i", "r", "h", "u", "t", "a">>, <<"T", "o", "t", "o">>,
      <<"U", "g", "a", "r", "i", "t", "i", "c">>, <<"V", "a", "i">>,
      <<"V", "i", "t", "h", "k", "u", "q", "i">>,
      <<"W", "a", "n", "c", "h", "o">>,
      <<"W", "a", "r", "a", "n", "g", "_", "C", "i", "t", "i">>,
      <<"Y", "e", "z", "i", "d", "i">>, <<"Y", "i">>,
      <<"Z", "a", "n", "a", "b", "a", "z", "a", "r", "_", "S", "q", "u", "a", "r", "e">>
    }

\* unicodeTable: the characters of a category or a script, and whether the
\* name is known.
unicodeTable(name) ==
    IF name = <<"A", "n", "y">> THEN [ok |-> TRUE, set |-> AsciiSet]
    ELSE IF \E g \in Categories : g.name = name
    THEN [ok |-> TRUE, set |-> (CHOOSE g \in Categories : g.name = name).set]
    ELSE IF name = <<"L", "a", "t", "i", "n">>
    THEN [ok |-> TRUE, set |-> Letters]
    ELSE IF name = <<"C", "o", "m", "m", "o", "n">>
    THEN [ok |-> TRUE, set |-> AsciiSet \ Letters]
    ELSE [ok |-> name \in ScriptNames, set |-> {}]

(***************************************************************************)
(* Escapes.  The result of a parsing operator has a field ok, false for an *)
(* error, a field found, false when there was nothing of its kind to       *)
(* read, and then what was read and the index next after it.               *)
(***************************************************************************)
Failed == [ok |-> FALSE, found |-> FALSE]

Nothing == [ok |-> TRUE, found |-> FALSE]

unhex(c) ==
    IF c \in Digits THEN Code(c) - Code("0")
    ELSE IF c \in CharsIn("a", "f") THEN Code(c) - Code("a") + 10
    ELSE IF c \in CharsIn("A", "F") THEN Code(c) - Code("A") + 10
    ELSE -1

\* parseEscape: the escape whose backslash is at index t.  An octal escape
\* has up to three digits, \x two hexadecimal digits or any number of them
\* in braces, read by hexBraces from index k on.
RECURSIVE hexBraces(_, _, _, _)
hexBraces(e, k, rune, nhex) ==
    IF k > Len(e) THEN Failed
    ELSE IF e[k] = "}"
    THEN (IF nhex = 0 THEN Failed
          ELSE [ok |-> TRUE, found |-> TRUE, rune |-> rune, next |-> k + 1])
    ELSE IF unhex(e[k]) < 0 THEN Failed
    ELSE IF rune * 16 + unhex(e[k]) > MaxRune THEN Failed
    ELSE hexBraces(e, k + 1, rune * 16 + unhex(e[k]), nhex + 1)

parseEscape(e, t) ==
    LET Rune(rune, next) ==
            [ok |-> TRUE, found |-> TRUE, rune |-> rune, next |-> next]
        IsOctal(k) == k <= Len(e) /\ e[k] \in CharsIn("0", "7")
        octal3(k, rune) ==
            IF IsOctal(k) THEN Rune(rune * 8 + unhex(e[k]), k + 1)
            ELSE Rune(rune, k)
        octal2(k, rune) ==
            IF IsOctal(k) THEN octal3(k + 1, rune * 8 + unhex(e[k]))
            ELSE Rune(rune, k)
        hexPair(k) ==
            IF k + 1 > Len(e) THEN Failed
            ELSE IF unhex(e[k]) < 0 \/ unhex(e[k + 1]) < 0 THEN Failed
            ELSE Rune(unhex(e[k]) * 16 + unhex(e[k + 1]), k + 2)
    IN  IF t + 1 > Len(e) THEN Failed
        ELSE CASE e[t + 1] \in CharsIn("1", "7") ->
                    IF IsOctal(t + 2) THEN octal2(t + 2, unhex(e[t + 1]))
                    ELSE Failed
               [] e[t + 1] = "0" -> octal2(t + 2, 0)
               [] e[t + 1] = "x" ->
                    IF t + 2 > Len(e) THEN Failed
                    ELSE IF e[t + 2] = "{" THEN hexBraces(e, t + 3, 0, 0)
                    ELSE hexPair(t + 2)
               [] e[t + 1] = "a" -> Rune(7, t + 2)
               [] e[t + 1] = "f" -> Rune(12, t + 2)
               [] e[t + 1] = "n" -> Rune(10, t + 2)
               [] e[t + 1] = "r" -> Rune(13, t + 2)
               [] e[t + 1] = "t" -> Rune(9, t + 2)
               [] e[t + 1] = "v" -> Rune(11, t + 2)
               [] OTHER ->
                    IF IsAlnum(e[t + 1]) THEN Failed
                    ELSE Rune(Code(e[t + 1]), t + 2)

\* parseClassChar: one character of a bracket class.
parseClassChar(e, t) ==
    IF t > Len(e) THEN Failed
    ELSE IF e[t] = "\\" THEN parseEscape(e, t)
    ELSE [ok |-> TRUE, found |-> TRUE, rune |-> Code(e[t]), next |-> t + 1]

(***************************************************************************)
(* Classes.  What is read is an item of a class.                           *)
(***************************************************************************)
Item(item, next) ==
    [ok |-> TRUE, found |-> TRUE, item |-> item, next |-> next]

\* parsePerlClassEscape: \d \D \s \S \w \W at index t.
parsePerlClassEscape(e, t, fold) ==
    IF t + 1 > Len(e) \/ e[t] # "\\" THEN Nothing
    ELSE CASE e[t + 1] \in {"d", "D"} ->
                Item(appendGroup(Digits, e[t + 1] = "d", fold), t + 2)
           [] e[t + 1] \in {"s", "S"} ->
                Item(appendGroup(Spaces, e[t + 1] = "s", fold), t + 2)
           [] e[t + 1] \in {"w", "W"} ->
                Item(appendGroup(WordChars, e[t + 1] = "w", fold), t + 2)
           [] OTHER -> Nothing

\* parseUnicodeClass: \pN, \p{Name}, \PN or \P{Name} at index t; a "^"
\* before the name changes the sign.
parseUnicodeClass(e, t, fold) ==
    LET group(positive, next, tab) ==
            IF tab.ok THEN Item(appendGroup(tab.set, positive, fold), next)
            ELSE Failed
        named(name, positive, next) ==
            IF Len(name) > 0 /\ name[1] = "^"
            THEN group(~positive, next, unicodeTable(Tail(name)))
            ELSE group(positive, next, unicodeTable(name))
        braces(end) ==
            IF end = 0 THEN Failed
            ELSE named(SubSeq(e, t + 3, end - 1), e[t + 1] = "p", end + 1)
    IN  IF t + 1 > Len(e) \/ e[t] # "\\" \/ e[t + 1] \notin {"p", "P"}
        THEN Nothing
        ELSE IF t + 2 > Len(e) THEN Failed
        ELSE IF e[t + 2] = "{" THEN braces(IndexRune(e, t, "}"))
        ELSE named(<<e[t + 2]>>, e[t + 1] = "p", t + 3)

\* parseNamedClass: a POSIX class from "[:" at index t to the first ":]"
\* after it; without ":]" there is none.
parseNamedClass(e, t, fold) ==
    LET named(name, positive, next) ==
            IF \E g \in posixGroup : g.name = name
            THEN Item(appendGroup(
                          (CHOOSE g \in posixGroup : g.name = name).set,
                          positive, fold), next)
            ELSE Failed
        upTo(end) ==
            IF end = 0 THEN Nothing
            ELSE IF end > t + 2 /\ e[t + 2] = "^"
            THEN named(SubSeq(e, t + 3, end - 1), FALSE, end + 2)
            ELSE named(SubSeq(e, t + 2, end - 1), TRUE, end + 2)
    IN  IF t + 2 > Len(e) \/ e[t] # "[" \/ e[t + 1] # ":" THEN Nothing
        ELSE upTo(Index(e, t + 2, ":", "]"))

\* parseClassRange: a character, or a range when "-" and a bound follow.
parseClassRange(e, t, fold) ==
    LET to(lo, hi) ==
            IF ~hi.ok \/ hi.rune < lo.rune THEN Failed
            ELSE Item(Range(lo.rune, hi.rune, fold), hi.next)
        from(lo) ==
            IF ~lo.ok THEN Failed
            ELSE IF /\ lo.next + 1 <= Len(e)
                    /\ e[lo.next] = "-"
                    /\ e[lo.next + 1] # "]"
            THEN to(lo, parseClassChar(e, lo.next + 1))
            ELSE Item(Range(lo.rune, lo.rune, fold), lo.next)
    IN  from(parseClassChar(e, t))

\* parseClass: the loop over a bracket class from index k on, after its "["
\* and the "^" that negates it.  A "]" closes the class unless it is its
\* first character.  Each round looks for a POSIX class, a Unicode class, a
\* Perl class and a range, in this order.
RECURSIVE parseClass(_, _, _, _, _)
parseClass(e, k, first, fold, items) ==
    LET perlOr(x) == IF x.found THEN x ELSE parseClassRange(e, k, fold)
        unicodeOr(x) ==
            IF ~x.ok \/ x.found THEN x
            ELSE perlOr(parsePerlClassEscape(e, k, fold))
        namedOr(x) ==
            IF ~x.ok \/ x.found THEN x
            ELSE unicodeOr(parseUnicodeClass(e, k, fold))
        add(x) ==
            IF x.ok
            THEN parseClass(e, x.next, FALSE, fold, Append(items, x.item))
            ELSE Failed
    IN  IF k <= Len(e) /\ e[k] = "]" /\ ~first
        THEN [ok |-> TRUE, found |-> TRUE, items |-> items, next |-> k + 1]
        ELSE add(namedOr(parseNamedClass(e, k, fold)))

(***************************************************************************)
(* Counted repetition.                                                     *)
(***************************************************************************)
\* The value of the digits e[a], ..., e[b - 1], -1 once it is too large.
RECURSIVE Number(_, _, _, _)
Number(e, a, b, n) ==
    IF a >= b THEN n
    ELSE IF n >= MaxInt THEN -1
    ELSE Number(e, a + 1, b, n * 10 + unhex(e[a]))

\* parseInt: the number whose digits start at index k and stop before index
\* end; a leading zero is a number only when no digit follows it.
parseInt(e, k) ==
    LET upTo(end) ==
            IF end - k > 1 /\ e[k] = "0" THEN Failed
            ELSE [ok |-> TRUE, found |-> TRUE, n |-> Number(e, k, end, 0),
                  next |-> end]
    IN  IF k > Len(e) \/ e[k] \notin Digits THEN Failed
        ELSE upTo(First({j \in k..(Len(e) + 1) :
                            j > Len(e) \/ e[j] \notin Digits}))

\* parseRepeat: {n}, {n,} or {n,m} at index t, max -1 when there is none.
\* A max too large to read makes min -1, which no size check accepts.
parseRepeat(e, t) ==
    LET Counts(min, max, next) ==
            [ok |-> TRUE, found |-> TRUE, min |-> min, max |-> max,
             next |-> next]
        close(min, max, k) ==
            IF k > Len(e) \/ e[k] # "}" THEN Failed
            ELSE Counts(min, max, k + 1)
        upper(lo, hi) ==
            IF ~hi.ok THEN Failed
            ELSE close(IF hi.n < 0 THEN -1 ELSE lo.n, hi.n, hi.next)
        lower(lo) ==
            IF ~lo.ok \/ lo.next > Len(e) THEN Failed
            ELSE IF e[lo.next] # "," THEN close(lo.n, lo.n, lo.next)
            ELSE IF lo.next + 1 > Len(e) THEN Failed
            ELSE IF e[lo.next + 1] = "}" THEN Counts(lo.n, -1, lo.next + 2)
            ELSE upper(lo, parseInt(e, lo.next + 1))
    IN  lower(parseInt(e, t + 1))

\* repeatIsValid: the counts of nested repetitions, multiplied, stay within
\* n.
RECURSIVE repeatIsValid(_, _)
repeatIsValid(re, n) ==
    LET m == IF re.max < 0 THEN re.min ELSE re.max
    IN  IF re.op = "repeat" /\ re.max = 0 THEN TRUE
        ELSE IF re.op = "repeat" /\ m > n THEN FALSE
        ELSE \A k \in 1..Len(re.subs) :
                repeatIsValid(re.subs[k],
                              IF re.op = "repeat" /\ m > 0 THEN n \div m
                              ELSE n)

(***************************************************************************)
(* The stack of the parser.                                                *)
(***************************************************************************)
\* collapse: the pieces above the pseudo-operator nearest to the top, at
\* index i (0 without one), become one piece of the operator op; one piece
\* stands for itself, and without any the piece is none.
collapse(stack, op, none) ==
    LET at ==
            {k \in 1..Len(stack) : stack[k].op \in {"leftParen", "verticalBar"}}
        above(i) ==
            IF i = Len(stack) THEN Append(stack, OpNode(none))
            ELSE IF i + 1 = Len(stack) THEN stack
            ELSE Append(SubSeq(stack, 1, i),
                        Node(op, <<>>, FALSE, 0, 0,
                             SubSeq(stack, i + 1, Len(stack)), Perl, FALSE))
    IN  above(IF at = {} THEN 0 ELSE CHOOSE k \in at : \A j \in at : j <= k)

\* concat: the pieces above the pseudo-operator become a concatenation, the
\* empty match when there is none.
concat(stack) == collapse(stack, "concat", "emptyMatch")

\* alternate: the pieces above the parenthesis become an alternation.
alternate(stack) == collapse(stack, "alternate", "noMatch")

\* swapVerticalBar: when a vertical bar lies under the top, the top goes
\* below it.
swapVerticalBar(stack) ==
    IF Len(stack) >= 2 /\ stack[Len(stack) - 1].op = "verticalBar"
    THEN [stack EXCEPT ![Len(stack) - 1] = stack[Len(stack)],
                       ![Len(stack)] = stack[Len(stack) - 1]]
    ELSE stack

\* parseVerticalBar: after concat the bar is pushed unless one was swapped
\* to the top.
parseVerticalBar(stack) ==
    LET bar(swapped) ==
            IF swapped[Len(swapped)].op = "verticalBar" THEN swapped
            ELSE Append(swapped, OpNode("verticalBar"))
    IN  bar(swapVerticalBar(concat(stack)))

\* The close of a group and of the expression: concat, the bar swapped to
\* the top is popped, alternate.
closeGroup(stack) ==
    LET pop(swapped) ==
            IF swapped[Len(swapped)].op = "verticalBar"
            THEN SubSeq(swapped, 1, Len(swapped) - 1)
            ELSE swapped
    IN  alternate(pop(swapVerticalBar(concat(stack))))

(***************************************************************************)
(* The parser: its position i in the expression, the stack, the flags,     *)
(* whether the last piece was a repetition, and whether it goes on.        *)
(***************************************************************************)
Fail(p) == [p EXCEPT !.ok = FALSE]

\* push, and the loop goes on at index next.
push(p, re, next) ==
    [p EXCEPT !.stack = Append(@, re), !.i = next, !.lastRepeat = FALSE]

\* literal: a class of one character, folded under the flag i.
literal(p, rune, next) ==
    push(p, ClassNode(<<Range(rune, rune, p.flags.foldCase)>>, FALSE), next)

\* repeat: the repetition replaces the top of the stack.  A "?" after the
\* operator makes it lazy; a repetition of a repetition, of nothing or of a
\* pseudo-operator is an error, as is a count beyond MaxRepeat.
repeat(e, p, op, min, max, after) ==
    LET top(re, next) ==
            IF re.op = "repeat" /\ (re.min >= 2 \/ re.max >= 2)
                                /\ ~repeatIsValid(re, MaxRepeat)
            THEN Fail(p)
            ELSE [p EXCEPT !.stack[Len(p.stack)] = re, !.i = next,
                           !.lastRepeat = TRUE]
        at(next) ==
            IF p.lastRepeat THEN Fail(p)
            ELSE IF Len(p.stack) = 0 THEN Fail(p)
            ELSE IF p.stack[Len(p.stack)].op \in {"leftParen", "verticalBar"}
            THEN Fail(p)
            ELSE top(Node(op, <<>>, FALSE, min, max,
                          <<p.stack[Len(p.stack)]>>, Perl, FALSE), next)
    IN  IF after <= Len(e) /\ e[after] = "?" THEN at(after + 1)
        ELSE at(after)

\* parsePerlFlags: "(?" at index p.i opens a named group "(?P<name>" or
\* "(?<name>", or sets the flags i m s U, cleared after a "-"; ":" opens
\* a group that keeps the flags in force before it, ")" ends the flags.
\* parseFlags reads the flags from index k on.
RECURSIVE parseFlags(_, _, _, _, _, _)
parseFlags(e, p, k, flags, sign, sawFlag) ==
    IF k > Len(e) THEN Fail(p)
    ELSE CASE e[k] = "i" ->
                parseFlags(e, p, k + 1, [flags EXCEPT !.foldCase = sign > 0],
                           sign, TRUE)
           [] e[k] = "m" ->
                parseFlags(e, p, k + 1, [flags EXCEPT !.oneLine = sign < 0],
                           sign, TRUE)
           [] e[k] = "s" ->
                parseFlags(e, p, k + 1, [flags EXCEPT !.dotNL = sign > 0],
                           sign, TRUE)
           [] e[k] = "U" ->
                parseFlags(e, p, k + 1, [flags EXCEPT !.nonGreedy = sign > 0],
                           sign, TRUE)
           [] e[k] = "-" ->
                IF sign < 0 THEN Fail(p)
                ELSE parseFlags(e, p, k + 1, flags, -1, FALSE)
           [] e[k] = ":" ->
                IF sign < 0 /\ ~sawFlag THEN Fail(p)
                ELSE [push(p, Node("leftParen", <<>>, FALSE, 0, 0, <<>>,
                                   p.flags, FALSE), k + 1) EXCEPT
                         !.flags = flags]
           [] e[k] = ")" ->
                IF sign < 0 /\ ~sawFlag THEN Fail(p)
                ELSE [p EXCEPT !.flags = flags, !.i = k + 1,
                               !.lastRepeat = FALSE]
           [] OTHER -> Fail(p)

parsePerlFlags(e, p) ==
    LET isValidCaptureName(name) ==
            /\ Len(name) > 0
            /\ \A k \in 1..Len(name) : name[k] = "_" \/ IsAlnum(name[k])
        named(start, end) ==
            IF end = 0 THEN Fail(p)
            ELSE IF ~isValidCaptureName(SubSeq(e, start, end - 1))
            THEN Fail(p)
            ELSE push(p, Node("leftParen", <<>>, FALSE, 0, 0, <<>>, p.flags,
                              TRUE), end + 1)
    IN  IF Len(e) - p.i + 1 > 4 /\ e[p.i + 2] = "P" /\ e[p.i + 3] = "<"
        THEN named(p.i + 4, IndexRune(e, p.i, ">"))
        ELSE IF Len(e) - p.i + 1 > 3 /\ e[p.i + 2] = "<"
        THEN named(p.i + 3, IndexRune(e, p.i, ">"))
        ELSE parseFlags(e, p, p.i + 2, p.flags, 1, FALSE)

\* parseRightParen: the group is closed, the flags before it are restored,
\* and a capture wraps the piece of a capturing group.
parseRightParen(p) ==
    LET pop(stack) ==
            IF Len(stack) < 2 THEN Fail(p)
            ELSE IF stack[Len(stack) - 1].op # "leftParen" THEN Fail(p)
            ELSE [p EXCEPT
                     !.stack =
                         Append(SubSeq(stack, 1, Len(stack) - 2),
                                IF stack[Len(stack) - 1].cap
                                THEN Node("capture", <<>>, FALSE, 0, 0,
                                          <<stack[Len(stack)]>>, Perl, FALSE)
                                ELSE stack[Len(stack)]),
                     !.flags = stack[Len(stack) - 1].flags,
                     !.i = @ + 1,
                     !.lastRepeat = FALSE]
    IN  pop(closeGroup(p.stack))

\* The backslash at index p.i in the loop of parse: \A \b \B \z, the
\* literals of \Q to \E or to the end, a Unicode class, a Perl class, or
\* the literal of an escape.
parseBackslash(e, p) ==
    LET quoted(from, to, next) ==
            [p EXCEPT
                !.stack =
                    @ \o [j \in 1..(to - from + 1) |->
                             ClassNode(<<Range(Code(e[from + j - 1]),
                                              Code(e[from + j - 1]),
                                              p.flags.foldCase)>>, FALSE)],
                !.i = next,
                !.lastRepeat = FALSE]
        quote(end) ==
            IF end = 0 THEN quoted(p.i + 2, Len(e), Len(e) + 1)
            ELSE quoted(p.i + 2, end - 1, end + 2)
        escape(x) == IF x.ok THEN literal(p, x.rune, x.next) ELSE Fail(p)
        perlOr(x) ==
            IF x.found THEN push(p, ClassNode(<<x.item>>, FALSE), x.next)
            ELSE escape(parseEscape(e, p.i))
        unicodeOr(x) ==
            IF ~x.ok THEN Fail(p)
            ELSE IF x.found THEN push(p, ClassNode(<<x.item>>, FALSE), x.next)
            ELSE perlOr(parsePerlClassEscape(e, p.i, p.flags.foldCase))
    IN  IF p.i + 1 > Len(e) THEN Fail(p)
        ELSE CASE e[p.i + 1] = "A" -> push(p, OpNode("beginText"), p.i + 2)
               [] e[p.i + 1] = "b" ->
                    push(p, OpNode("wordBoundary"), p.i + 2)
               [] e[p.i + 1] = "B" ->
                    push(p, OpNode("noWordBoundary"), p.i + 2)
               [] e[p.i + 1] = "C" -> Fail(p)
               [] e[p.i + 1] = "Q" -> quote(Index(e, p.i + 2, "\\", "E"))
               [] e[p.i + 1] = "z" -> push(p, OpNode("endText"), p.i + 2)
               [] OTHER ->
                    unicodeOr(parseUnicodeClass(e, p.i, p.flags.foldCase))

\* One round of the loop of parse, at the character e[p.i].  "." is every
\* character but the line feed, and that too under the flag s; "{" is a
\* literal when no count can be read.
parseStep(e, p) ==
    LET anyChar ==
            IF p.flags.dotNL THEN <<Range(0, MaxRune, FALSE)>>
            ELSE <<Range(0, 9, FALSE), Range(11, MaxRune, FALSE)>>
        class(x) ==
            IF x.ok
            THEN push(p, ClassNode(x.items, e[p.i + 1] = "^"), x.next)
            ELSE Fail(p)
        brace(x) ==
            IF ~x.ok THEN literal(p, Code("{"), p.i + 1)
            ELSE IF \/ x.min < 0
                    \/ x.min > MaxRepeat
                    \/ x.max > MaxRepeat
                    \/ (x.max >= 0 /\ x.min > x.max)
            THEN Fail(p)
            ELSE repeat(e, p, "repeat", x.min, x.max, x.next)
    IN  CASE e[p.i] = "(" ->
                IF p.i + 1 <= Len(e) /\ e[p.i + 1] = "?"
                THEN parsePerlFlags(e, p)
                ELSE push(p, Node("leftParen", <<>>, FALSE, 0, 0, <<>>,
                                  p.flags, TRUE), p.i + 1)
          [] e[p.i] = "|" ->
                [p EXCEPT !.stack = parseVerticalBar(@), !.i = @ + 1,
                          !.lastRepeat = FALSE]
          [] e[p.i] = ")" -> parseRightParen(p)
          [] e[p.i] = "^" ->
                push(p, OpNode(IF p.flags.oneLine THEN "beginText"
                               ELSE "beginLine"), p.i + 1)
          [] e[p.i] = "$" ->
                push(p, OpNode(IF p.flags.oneLine THEN "endText"
                               ELSE "endLine"), p.i + 1)
          [] e[p.i] = "." -> push(p, ClassNode(anyChar, FALSE), p.i + 1)
          [] e[p.i] = "[" ->
                class(parseClass(e, IF p.i + 1 <= Len(e) /\ e[p.i + 1] = "^"
                                    THEN p.i + 2 ELSE p.i + 1,
                                 TRUE, p.flags.foldCase, <<>>))
          [] e[p.i] = "*" -> repeat(e, p, "star", 0, 0, p.i + 1)
          [] e[p.i] = "+" -> repeat(e, p, "plus", 0, 0, p.i + 1)
          [] e[p.i] = "?" -> repeat(e, p, "quest", 0, 0, p.i + 1)
          [] e[p.i] = "{" -> brace(parseRepeat(e, p.i))
          [] e[p.i] = "\\" -> parseBackslash(e, p)
          [] OTHER -> literal(p, Code(e[p.i]), p.i + 1)

\* syntax.Parse(expr, syntax.Perl): the loop runs to the end of the
\* expression or to an error; then what is left on the stack is closed as a
\* group is, and one piece must remain.
RECURSIVE parseLoop(_, _)
parseLoop(e, p) ==
    IF ~p.ok \/ p.i > Len(e) THEN p ELSE parseLoop(e, parseStep(e, p))

parse(e) ==
    LET end(ok, stack) ==
            IF ok /\ Len(stack) = 1 THEN [ok |-> TRUE, re |-> stack[1]]
            ELSE [ok |-> FALSE, re |-> OpNode("noMatch")]
        done(p) == end(p.ok, IF p.ok THEN closeGroup(p.stack) ELSE <<>>)
    IN  done(parseLoop(e, [i |-> 1, stack |-> <<>>, flags |-> Perl,
                           lastRepeat |-> FALSE, ok |-> TRUE]))

(***************************************************************************)
(* Matching.                                                               *)
(***************************************************************************)
\* The positions of the text s the parsed expression re reaches from the
\* positions P.
RECURSIVE MatchSet(_, _, _)

\* n rounds of sub from the positions X; the rounds stop when one leaves
\* the positions as they were.
RECURSIVE MatchTimes(_, _, _, _)
MatchTimes(sub, s, X, n) ==
    LET on(Y) == IF Y = X THEN X ELSE MatchTimes(sub, s, Y, n - 1)
    IN  IF n = 0 \/ X = {} THEN X ELSE on(MatchSet(sub, s, X))

\* At most n further rounds of sub (any number for n = -1): all is what was
\* reached, front what the last round added.
RECURSIVE MatchMore(_, _, _, _, _)
MatchMore(sub, s, all, front, n) ==
    LET on(got) ==
            MatchMore(sub, s, all \cup got, got \ all,
                      IF n < 0 THEN n ELSE n - 1)
    IN  IF n = 0 \/ front = {} THEN all ELSE on(MatchSet(sub, s, front))

RECURSIVE MatchConcat(_, _, _, _)
MatchConcat(subs, k, s, P) ==
    IF k > Len(subs) \/ P = {} THEN P
    ELSE MatchConcat(subs, k + 1, s, MatchSet(subs[k], s, P))

MatchSet(re, s, P) ==
    LET IsBoundary(q) ==
            (q >= 1 /\ s[q] \in WordChars)
                # (q < Len(s) /\ s[q + 1] \in WordChars)
        rest(T, n) == MatchMore(re.subs[1], s, T, T, n)
    IN  CASE re.op = "charClass" ->
                {q + 1 : q \in {q \in P : q < Len(s) /\ ClassHas(re, s[q + 1])}}
          [] re.op = "emptyMatch" -> P
          [] re.op = "noMatch" -> {}
          [] re.op = "beginText" -> P \cap {0}
          [] re.op = "endText" -> P \cap {Len(s)}
          [] re.op = "beginLine" -> {q \in P : q = 0 \/ s[q] = "\n"}
          [] re.op = "endLine" -> {q \in P : q = Len(s) \/ s[q + 1] = "\n"}
          [] re.op = "wordBoundary" -> {q \in P : IsBoundary(q)}
          [] re.op = "noWordBoundary" -> {q \in P : ~IsBoundary(q)}
          [] re.op = "capture" -> MatchSet(re.subs[1], s, P)
          [] re.op = "concat" -> MatchConcat(re.subs, 1, s, P)
          [] re.op = "alternate" ->
                UNION {MatchSet(re.subs[k], s, P) : k \in 1..Len(re.subs)}
          [] re.op = "star" -> rest(P, -1)
          [] re.op = "plus" -> rest(MatchSet(re.subs[1], s, P), -1)
          [] re.op = "quest" -> P \cup MatchSet(re.subs[1], s, P)
          [] re.op = "repeat" ->
                rest(MatchTimes(re.subs[1], s, P, re.min),
                     IF re.max < 0 THEN -1 ELSE re.max - re.min)

\* regexp.Compile(expr) returns no error.
RegexpCompiles(expr) == parse(expr).ok

\* regexp.MustCompile(expr).MatchString(s), for an expression that compiles.
MatchString(expr, s) == MatchSet(parse(expr).re, s, 0..Len(s)) # {}

(***************************************************************************)
(* The route struct and AddRoute                                           *)
(***************************************************************************)
\* A nil map has isNil = TRUE; m maps the literals to routes.
NilStaticMap == [isNil |-> TRUE, m |-> <<>>]

\* &route{}
NewRoute ==
    [indices    |-> <<>>,
     static     |-> <<>>,
     staticMap  |-> NilStaticMap,
     variables  |-> <<>>,
     variable   |-> NilRoute,
     data       |-> NilData,
     paramNames |-> <<>>,
     wildcard   |-> FALSE]

\* r.staticMap[part] = next
MapPut(sm, part, next) ==
    [isNil |-> FALSE,
     m     |-> [k \in (DOMAIN sm.m) \cup {part} |->
                    IF k = part THEN next ELSE sm.m[k]]]

\* A conversion whose loop starts at the second element of the slices.
MapOfSlices_SkipFirst(indices, static, i) ==
    [isNil |-> FALSE,
     m     |-> [k \in {indices[j] : j \in 2..i} |->
                    static[CHOOSE j \in 2..i : indices[j] = k]]]

\* The map made of the parallel slices (lines 250-253).
RECURSIVE MapOfSlices(_, _, _)
MapOfSlices(indices, static, i) ==
    IF i = 0 THEN [isNil |-> FALSE, m |-> <<>>]
    ELSE MapPut(MapOfSlices(indices, static, i - 1), indices[i], static[i])

\* A range loop that stops at the first element that passes its test: the
\* index of the first TRUE of hits, or 0.
FirstIndex(hits) ==
    IF \E i \in 1..Len(hits) : hits[i]
    THEN CHOOSE i \in 1..Len(hits) : hits[i] /\ \A j \in 1..(i - 1) : ~hits[j]
    ELSE 0

\* The misplaced-wildcard check (lines 144-148).
WildcardMisplaced(parts) ==
    \E i \in 1..Len(parts) : parts[i] = <<"*">> /\ i # Len(parts)

\* A walk state: the heap, the current route, the names collected, the error.
AddState(ns, cur, names, e) ==
    [nodes |-> ns, r |-> cur, paramNames |-> names, err |-> e]

\* The variable part without a custom expression (lines 172-182).
AddPlainVariable(st, names) ==
    LET ns == st.nodes
        cur == st.r
    IN  IF ns[cur].variable # NilRoute
        THEN AddState(ns, ns[cur].variable, names, NoError)
        ELSE LET next == Len(ns) + 1
             IN  AddState(Append([ns EXCEPT ![cur].variable = next], NewRoute),
                          next, names, NoError)

\* The variable part with a custom expression and no search for an existing
\* child (no lines 185-190).
AddRegexVariable_NoReuse(st, names, expr) ==
    LET ns == st.nodes
        cur == st.r
    IN  IF ~RegexpCompiles(expr)
        THEN AddState(ns, cur, names, ErrRegexp)
        ELSE LET next == Len(ns) + 1
                 vr == [expr |-> expr, route |-> next]
             IN  AddState(Append([ns EXCEPT ![cur].variables = Append(@, vr)],
                                 NewRoute),
                          next, names, NoError)

\* The variable part with a custom expression (lines 183-212).
AddRegexVariable(st, names, expr) ==
    LET ns == st.nodes
        cur == st.r
        found == FirstIndex([i \in 1..Len(ns[cur].variables) |->
                                ns[cur].variables[i].expr = expr])
    IN  IF found # 0
        THEN AddState(ns, ns[cur].variables[found].route, names, NoError)
        ELSE IF ~RegexpCompiles(expr)
        THEN AddState(ns, cur, names, ErrRegexp)
        ELSE LET next == Len(ns) + 1
                 vr == [expr |-> expr, route |-> next]
             IN  AddState(Append([ns EXCEPT ![cur].variables = Append(@, vr)],
                                 NewRoute),
                          next, names, NoError)

\* The static part with a conversion that keeps the slices (no lines 257-259).
AddStatic_KeepSlices(st, part) ==
    LET ns == st.nodes
        cur == st.r
        node == ns[cur]
        fresh == Len(ns) + 1
    IN  IF ~node.staticMap.isNil
        THEN IF part \in DOMAIN node.staticMap.m
             THEN AddState(ns, node.staticMap.m[part], st.paramNames, NoError)
             ELSE AddState(Append([ns EXCEPT ![cur].staticMap =
                                        MapPut(@, part, fresh)], NewRoute),
                           fresh, st.paramNames, NoError)
        ELSE LET found == FirstIndex([i \in 1..Len(node.indices) |->
                                         node.indices[i] = part])
             IN  IF found # 0
                 THEN AddState(ns, node.static[found], st.paramNames, NoError)
                 ELSE IF Len(node.indices) >= StaticSliceMax
                 THEN AddState(
                        Append([ns EXCEPT
                                  ![cur].staticMap =
                                      MapPut(MapOfSlices(node.indices, node.static,
                                                         Len(node.indices)),
                                             part, fresh)], NewRoute),
                        fresh, st.paramNames, NoError)
                 ELSE AddState(
                        Append([ns EXCEPT
                                  ![cur].indices = Append(@, part),
                                  ![cur].static = Append(@, fresh)], NewRoute),
                        fresh, st.paramNames, NoError)

\* The static part (lines 216-268).
AddStatic(st, part) ==
    LET ns == st.nodes
        cur == st.r
        node == ns[cur]
        fresh == Len(ns) + 1
    IN  IF ~node.staticMap.isNil
        THEN IF part \in DOMAIN node.staticMap.m
             THEN AddState(ns, node.staticMap.m[part], st.paramNames, NoError)
             ELSE AddState(Append([ns EXCEPT ![cur].staticMap =
                                        MapPut(@, part, fresh)], NewRoute),
                           fresh, st.paramNames, NoError)
        ELSE LET found == FirstIndex([i \in 1..Len(node.indices) |->
                                         node.indices[i] = part])
             IN  IF found # 0
                 THEN AddState(ns, node.static[found], st.paramNames, NoError)
                 ELSE IF Len(node.indices) >= StaticSliceMax
                 THEN AddState(
                        Append([ns EXCEPT
                                  ![cur].staticMap =
                                      MapPut(MapOfSlices(node.indices, node.static,
                                                         Len(node.indices)),
                                             part, fresh),
                                  ![cur].indices = <<>>,
                                  ![cur].static = <<>>], NewRoute),
                        fresh, st.paramNames, NoError)
                 ELSE AddState(
                        Append([ns EXCEPT
                                  ![cur].indices = Append(@, part),
                                  ![cur].static = Append(@, fresh)], NewRoute),
                        fresh, st.paramNames, NoError)

\* One iteration of the loop "walk" (lines 154-269) on the part given.
AddPart(st, part) ==
    IF Len(part) = 0
    THEN AddState(st.nodes, st.r, st.paramNames, ErrBadSyntax)
    ELSE IF part[1] = ":"
    THEN LET index == IndexByte(part, "(")
             expr == IF index # -1 THEN SliceFrom(part, index) ELSE EmptyString
             name == IF index # -1 THEN SliceTo(part, index) ELSE part
             names == Append(st.paramNames, SliceFrom(name, 1))
         IN  IF expr = EmptyString
             THEN AddPlainVariable(st, names)
             ELSE AddRegexVariable(st, names, expr)
    ELSE IF part = <<"*">>
    THEN AddState([st.nodes EXCEPT ![st.r].wildcard = TRUE],
                  st.r, st.paramNames, NoError)
    ELSE AddStatic(st, part)

\* The loop "walk" from part i on; it stops at the first error.
RECURSIVE AddWalk(_, _, _)
\* The loop after its iteration on part i left the state next.
AddWalkOn(next, parts, i) ==
    IF next.err # NoError THEN next ELSE AddWalk(next, parts, i + 1)

AddWalk(st, parts, i) ==
    IF i > Len(parts) THEN st ELSE AddWalkOn(AddPart(st, parts[i]), parts, i)

\* SetData that keeps the data and names of a route that already has some.
SetData_KeepFirst(ns, cur, data, names) ==
    IF ns[cur].data # NilData THEN ns
    ELSE [ns EXCEPT ![cur].data = data, ![cur].paramNames = names]

\* Lines 271-273: the data and the parameter names of the route reached.
SetData(ns, cur, data, names) ==
    [ns EXCEPT ![cur].data = data, ![cur].paramNames = names]

\* Lines 156, 195 and 271-275: the multiplexer AddRoute leaves and the error
\* it returns when its walk ended in the state end.
AddEnd(ms1, data, end) ==
    IF end.err # NoError
    THEN [methods |-> ms1, nodes |-> end.nodes, err |-> end.err]
    ELSE [methods |-> ms1,
          nodes |-> SetData(end.nodes, end.r, data, end.paramNames),
          err |-> NoError]

\* AddRoute that looks the method up without regard to case: "get" names
\* the tree of "GET".
AddRouteResult_FoldMethod(ms, ns, method, pattern, data) ==
    LET folded == IF method = "get" THEN "GET" ELSE method
        trimmed == TrimSlashes(pattern)
        hasRoot == folded \in DOMAIN ms
        ns1 == IF hasRoot THEN ns ELSE Append(ns, NewRoute)
        ms1 == IF hasRoot THEN ms
               ELSE [k \in (DOMAIN ms) \cup {folded} |->
                        IF k = folded THEN Len(ns1) ELSE ms[k]]
        root == ms1[folded]
        parts == Split(trimmed)
    IN  IF Len(trimmed) = 0
        THEN [methods |-> ms1, nodes |-> [ns1 EXCEPT ![root].data = data],
              err |-> NoError]
        ELSE IF WildcardMisplaced(parts)
        THEN [methods |-> ms1, nodes |-> ns1, err |-> ErrWildcardMisplaced]
        ELSE AddEnd(ms1, data,
                    AddWalk(AddState(ns1, root, <<>>, NoError), parts, 1))

\* AddRoute as a function of the multiplexer: the multiplexer it leaves and
\* the error it returns.
AddRouteResult(ms, ns, method, pattern, data) ==
    LET trimmed == TrimSlashes(pattern)
        hasRoot == method \in DOMAIN ms
        ns1 == IF hasRoot THEN ns ELSE Append(ns, NewRoute)
        ms1 == IF hasRoot THEN ms
               ELSE [k \in (DOMAIN ms) \cup {method} |->
                        IF k = method THEN Len(ns1) ELSE ms[k]]
        root == ms1[method]
        parts == Split(trimmed)
    IN  IF Len(trimmed) = 0
        THEN [methods |-> ms1, nodes |-> [ns1 EXCEPT ![root].data = data],
              err |-> NoError]
        ELSE IF WildcardMisplaced(parts)
        THEN [methods |-> ms1, nodes |-> ns1, err |-> ErrWildcardMisplaced]
        ELSE AddEnd(ms1, data,
                    AddWalk(AddState(ns1, root, <<>>, NoError), parts, 1))

(***************************************************************************)
(* Result, Param and the Params slice                                      *)
(*                                                                         *)
(* result.Params is a slice header: base names its backing array           *)
(* ("params": the inline array result.params of the caller's Result,       *)
(* "heap": an array append allocated, "nil": the nil slice) and len its    *)
(* length.                                                                 *)
(***************************************************************************)
ZeroParam == [Name |-> EmptyString, Value |-> EmptyString]

ZeroParams == [i \in 1..InlineCap |-> ZeroParam]

NilSlice == [base |-> "nil", len |-> 0]

\* var result Result
ZeroResult == [Data |-> NilData, Params |-> NilSlice, params |-> ZeroParams]

\* result.Params[i], with i counted from 1; hp is the heap array.
ParamAt(res, hp, i) ==
    IF res.Params.base = "params" THEN res.params[i] ELSE hp[i]

\* The elements of result.Params, in order.
ParamsOf(res, hp) == [i \in 1..res.Params.len |-> ParamAt(res, hp, i)]

\* result.Params = append(result.Params, p): in place while the backing
\* array has room, else into an allocated array.  The pair of the Result and
\* the heap array it leaves.
AppendParam(res, hp, p) ==
    LET n == res.Params.len
    IN  IF res.Params.base = "params" /\ n < InlineCap
        THEN [res |-> [res EXCEPT !.params[n + 1] = p, !.Params.len = n + 1],
              heap |-> hp]
        ELSE [res |-> [res EXCEPT !.Params = [base |-> "heap", len |-> n + 1]],
              heap |-> Append(ParamsOf(res, hp), p)]

\* result.Params[i].Name = name
SetName(res, hp, i, name) ==
    IF res.Params.base = "params"
    THEN [res |-> [res EXCEPT !.params[i].Name = name], heap |-> hp]
    ELSE [res |-> res, heap |-> [hp EXCEPT ![i].Name = name]]

\* Result.Param (lines 407-414): the value of the first parameter named name.
Param(res, hp, name) ==
    LET ps == ParamsOf(res, hp)
        found == FirstIndex([i \in 1..Len(ps) |-> ps[i].Name = name])
    IN  IF found # 0 THEN ps[found].Value ELSE EmptyString

\* MatchBegin without the "result.Data = nil" of line 281.
MatchBegin_KeepData(ms, ns, res, hp, method, path) ==
    LET res0 == [res EXCEPT !.Params = [base |-> "params", len |-> 0]]
        trimmed == TrimSlashes(path)
        base == [pc |-> "done", r |-> NilRoute, requestPath |-> path,
                 wildcard |-> FALSE, wildcardResult |-> ZeroResult,
                 wildcardPath |-> EmptyString, result |-> res0, heap |-> hp,
                 walk |-> <<>>, err |-> ErrNotFound]
    IN  IF method \notin DOMAIN ms
        THEN base
        ELSE IF Len(trimmed) = 0
        THEN [base EXCEPT !.r = ms[method], !.requestPath = trimmed,
                          !.result.Data = ns[ms[method]].data,
                          !.err = NoError]
        ELSE [base EXCEPT !.pc = "loop", !.r = ms[method],
                          !.requestPath = trimmed, !.err = NoError]

(***************************************************************************)
(* Match, as steps on a frame: the locals of the call, the caller's Result *)
(* and the value returned.                                                 *)
(***************************************************************************)
\* Lines 280-308: reset of the result, root lookup, trimming, the empty path.
MatchBegin(ms, ns, res, hp, method, path) ==
    LET res0 == [res EXCEPT !.Data = NilData,
                            !.Params = [base |-> "params", len |-> 0]]
        trimmed == TrimSlashes(path)
        base == [pc |-> "done", r |-> NilRoute, requestPath |-> path,
                 wildcard |-> FALSE, wildcardResult |-> ZeroResult,
                 wildcardPath |-> EmptyString, result |-> res0, heap |-> hp,
                 walk |-> <<>>, err |-> ErrNotFound]
    IN  IF method \notin DOMAIN ms
        THEN base
        ELSE IF Len(trimmed) = 0
        THEN [base EXCEPT !.r = ms[method], !.requestPath = trimmed,
                          !.result.Data = ns[ms[method]].data,
                          !.err = NoError]
        ELSE [base EXCEPT !.pc = "loop", !.r = ms[method],
                          !.requestPath = trimmed, !.err = NoError]

\* Lines 312-318: the wildcard snapshot.
Snapshot(ns, f) ==
    IF ns[f.r].wildcard
    THEN [f EXCEPT !.wildcard = TRUE,
                   !.wildcardResult.Params = f.result.Params,
                   !.wildcardResult.Data = ns[f.r].data,
                   !.wildcardPath = f.requestPath]
    ELSE f

\* Lines 328-355: the static child for part, NilRoute when there is none.
StaticNext(node, part) ==
    LET found == FirstIndex([i \in 1..Len(node.indices) |->
                                node.indices[i] = part])
    IN  IF found # 0 THEN node.static[found]
        ELSE IF ~node.staticMap.isNil /\ part \in DOMAIN node.staticMap.m
        THEN node.staticMap.m[part]
        ELSE NilRoute

\* The last of the regex children at the positions accepting, the
\* plain-variable child when there is none.
VariableLast(node, accepting) ==
    IF accepting # {}
    THEN node.variables[CHOOSE i \in accepting :
                            \A j \in accepting : j <= i].route
    ELSE node.variable

\* Lines 357-364 after the loop over the regex children: the regex child at
\* position found, the plain-variable child of line 358 when found = 0.
VariableAt(node, found) ==
    IF found # 0 THEN node.variables[found].route ELSE node.variable

\* VariableNext without the break of line 362: the last regex child that
\* accepts the part wins.
VariableNext_LastRegexWins(node, part) ==
    VariableLast(node, {i \in 1..Len(node.variables) :
                          MatchString(node.variables[i].expr, part)})

\* Lines 357-364: the variable child for part, NilRoute when there is none.
VariableNext(node, part) ==
    VariableAt(node, FirstIndex([i \in 1..Len(node.variables) |->
                                    MatchString(node.variables[i].expr, part)]))

\* Lines 321-326: the next path part, the path left after it, and whether
\* it is the last part (index < 0).  A path that starts with "/" (index = 0)
\* is taken whole and nothing is consumed.
NextPart(path) ==
    LET index == IndexByte(path, "/")
    IN  [part |-> IF index > 0 THEN SliceTo(path, index) ELSE path,
         rest |-> IF index > 0 THEN SliceFrom(path, index + 1) ELSE path,
         last |-> index < 0]

\* The choice between the static child sn and the variable child vn with
\* the variable child first.
AdvanceTo_VariableFirst(sn, vn) ==
    IF vn # NilRoute THEN [kind |-> "variable", to |-> vn]
    ELSE IF sn # NilRoute THEN [kind |-> "static", to |-> sn]
    ELSE [kind |-> "none", to |-> NilRoute]

\* Lines 328-369: the choice between the static child sn and the variable
\* child vn of a node, either of them NilRoute when there is none.
AdvanceTo(sn, vn) ==
    IF sn # NilRoute THEN [kind |-> "static", to |-> sn]
    ELSE IF vn # NilRoute THEN [kind |-> "variable", to |-> vn]
    ELSE [kind |-> "none", to |-> NilRoute]

\* Advance with the variable children tried before the static ones.
Advance_VariableFirst(node, part) ==
    AdvanceTo_VariableFirst(StaticNext(node, part), VariableNext(node, part))

\* Lines 328-369: the child the walk advances to from node on part: a static
\* child first, else a variable child, else none.
Advance(node, part) ==
    AdvanceTo(StaticNext(node, part), VariableNext(node, part))

\* Lines 321-383: the rest of an iteration of "pathloop" on the frame f
\* after the snapshot, with the part np and the child adv to advance to.
MatchStep(ns, f, np, adv) ==
    LET step == [route |-> f.r, part |-> np.part, kind |-> adv.kind,
                 to |-> adv.to, last |-> np.last]
        g == [f EXCEPT !.requestPath = np.rest, !.walk = Append(@, step)]
    IN  IF adv.kind = "static"
        THEN [g EXCEPT !.r = adv.to,
                       !.result.Data = IF np.last THEN ns[adv.to].data ELSE @,
                       !.pc = IF np.last THEN "end" ELSE "loop"]
        ELSE IF adv.kind = "none"
        THEN [g EXCEPT !.pc = "end"]
        ELSE LET app == AppendParam(f.result, f.heap,
                                    [Name |-> EmptyString, Value |-> np.part])
             IN  [g EXCEPT !.r = adv.to,
                           !.result = [app.res EXCEPT !.Data =
                                          IF np.last THEN ns[adv.to].data ELSE @],
                           !.heap = app.heap,
                           !.pc = IF np.last THEN "end" ELSE "loop"]

\* Lines 321-383: the rest of an iteration on the frame f after the
\* snapshot, with the part np.
MatchPart(ns, f, np) == MatchStep(ns, f, np, Advance(ns[f.r], np.part))

\* Lines 319-383: the rest of an iteration on the frame f after the
\* snapshot.
MatchAfterSnapshot(ns, f) == MatchPart(ns, f, NextPart(f.requestPath))

\* Lines 311-383: one iteration of the loop "pathloop".
MatchLoop(ns, f0) == MatchAfterSnapshot(ns, Snapshot(ns, f0))

\* WildcardFallback without the test result.Data == nil of line 386.
WildcardFallback_Always(f) ==
    IF f.wildcard
    THEN LET app == AppendParam(f.wildcardResult, f.heap,
                                [Name |-> <<"*">>, Value |-> f.wildcardPath])
         IN  [f EXCEPT !.result = app.res, !.heap = app.heap]
    ELSE f

\* Lines 385-392: the result reverted to the wildcard snapshot.  The struct
\* assignment copies all of wildcardResult, its untouched params array too.
WildcardFallback(f) ==
    IF f.result.Data = NilData /\ f.wildcard
    THEN LET app == AppendParam(f.wildcardResult, f.heap,
                                [Name |-> <<"*">>, Value |-> f.wildcardPath])
         IN  [f EXCEPT !.result = app.res, !.heap = app.heap]
    ELSE f

\* Lines 396-398: the names of route r bound to the first parameters; an
\* index past the end of result.Params panics.
RECURSIVE BindNames(_, _, _, _)
BindNames(f, names, i, n) ==
    IF i > n THEN f
    ELSE LET set == SetName(f.result, f.heap, i, names[i])
         IN  BindNames([f EXCEPT !.result = set.res, !.heap = set.heap],
                       names, i + 1, n)

\* Lines 385-403: the fallback, the name binding and the value returned.
MatchEnd(ns, f0) ==
    LET f == WildcardFallback(f0)
        names == ns[f.r].paramNames
        len == f.result.Params.len
    IN  IF f.result.Data # NilData
        THEN IF Len(names) > len
             THEN [BindNames(f, names, 1, len) EXCEPT
                        !.pc = "done", !.err = ErrIndexOutOfRange]
             ELSE [BindNames(f, names, 1, Len(names)) EXCEPT
                        !.pc = "done", !.err = NoError]
        ELSE [f EXCEPT !.pc = "done", !.err = ErrNotFound]

\* The frame a call ends in.
RECURSIVE MatchRun(_, _)
MatchRun(ns, f) ==
    IF f.pc = "loop" THEN MatchRun(ns, MatchLoop(ns, f))
    ELSE IF f.pc = "end" THEN MatchRun(ns, MatchEnd(ns, f))
    ELSE f

\* What a caller sees of a Match with a fresh Result: the value returned,
\* the Data and the parameters.
Outcome(f) ==
    [err |-> f.err, Data |-> f.result.Data, Params |-> ParamsOf(f.result, f.heap)]

MatchResult(ms, ns, method, path) ==
    Outcome(MatchRun(ns, MatchBegin(ms, ns, ZeroResult, <<>>, method, path)))

(***************************************************************************)
(* The calls made on the multiplexer.  A behaviour builds a multiplexer    *)
(* with at most MaxRoutes AddRoute calls and then runs one Match on a      *)
(* fresh Result.  The k-th AddRoute call brings the payload k, so that the *)
(* Data of a result names the registration it comes from.                  *)
(***************************************************************************)
Patterns ==
    {
      <<"/">>,  \* /
      <<"/", "a">>,  \* /a
      <<"a", "/", "b", "/">>,  \* a/b/
      <<"/", "a", "/", ":", "x">>,  \* /a/:x
      <<"/", "a", "/", ":", "y", "/", "b">>,  \* /a/:y/b
      <<"/", "a", "/", ":", "n", "(", "[", "0", "-", "9", "]", "+", ")">>,  \* /a/:n([0-9]+)
      <<"/", "a", "/", ":", "m", "(", "[", "a", "-", "z", "0", "-", "9", "]", "+", ")", "/", "b">>,  \* /a/:m([a-z0-9]+)/b
      <<"/", "a", "/", "*">>,  \* /a/*
      <<"/", "a", "/", ":", "x", "/", "*">>,  \* /a/:x/*
      <<"/", "a", "/", "*", "/", "b">>,  \* /a/*/b
      <<"/", "a", "/", "b", "/", "/", "a">>,  \* /a/b//a
      <<"/", "a", "/", ":", "n", "(", "[", "0", "-", "9", "]", "+", ")", "/", ":", "k", "(", ".">>,  \* /a/:n([0-9]+)/:k(.
      <<"/", "a", "/", ":", "y", "/", ":", "z">>   \* /a/:y/:z
    }

Paths ==
    {
      <<"/">>,  \* /
      <<"/", "a">>,  \* /a
      <<"/", "a", "/", "b">>,  \* /a/b
      <<"/", "a", "/", "1">>,  \* /a/1
      <<"/", "/", "a", "/", "1", "/", "b", "/">>,  \* //a/1/b/
      <<"/", "a", "/", "b", "/", "b">>,  \* /a/b/b
      <<"/", "a", "/", "1", "/", "a">>,  \* /a/1/a
      <<"/", "a", "/", "/", "b">>,  \* /a//b
      <<"/", "b">>,  \* /b
      <<"/", "a", "/", "1", "/", "b", "/", "b">>,  \* /a/1/b/b
      <<"/", "a", "/", "b", "1">>   \* /a/b1
    }

AddMethods == {"GET"}

MatchMethods == {"GET", "POST"}

Frame ==
    [pc |-> pc, r |-> r, requestPath |-> requestPath, wildcard |-> wildcard,
     wildcardResult |-> wildcardResult, wildcardPath |-> wildcardPath,
     result |-> result, heap |-> heap, walk |-> walk, err |-> err]

SetFrame(f) ==
    /\ pc' = f.pc
    /\ r' = f.r
    /\ requestPath' = f.requestPath
    /\ wildcard' = f.wildcard
    /\ wildcardResult' = f.wildcardResult
    /\ wildcardPath' = f.wildcardPath
    /\ result' = f.result
    /\ heap' = f.heap
    /\ walk' = f.walk
    /\ err' = f.err

\* No call in progress, on a zero Result.
IdleFrame ==
    [pc |-> "idle", r |-> NilRoute, requestPath |-> EmptyString,
     wildcard |-> FALSE, wildcardResult |-> ZeroResult,
     wildcardPath |-> EmptyString, result |-> ZeroResult, heap |-> <<>>,
     walk |-> <<>>, err |-> NoError]

NoCall == [method |-> "", path |-> EmptyString]

Init ==
    /\ methods = <<>>
    /\ nodes = <<>>
    /\ history = <<>>
    /\ call = NoCall
    /\ pc = "idle"
    /\ r = NilRoute
    /\ requestPath = EmptyString
    /\ wildcard = FALSE
    /\ wildcardResult = ZeroResult
    /\ wildcardPath = EmptyString
    /\ result = ZeroResult
    /\ heap = <<>>
    /\ walk = <<>>
    /\ err = NoError
    /\ peer = [call |-> NoCall, frame |-> IdleFrame]

\* The multiplexer and the record of the calls after an AddRoute call that
\* gave out.
AddRouteDone(method, pattern, data, out) ==
    /\ methods' = out.methods
    /\ nodes' = out.nodes
    /\ history' = Append(history, [method |-> method, pattern |-> pattern,
                                   data |-> data, err |-> out.err])

\* m.AddRoute(method, pattern, data)
AddRoute(method, pattern, data) ==
    /\ pc = "idle"
    /\ peer.frame.pc = "idle"
    /\ Len(history) < MaxRoutes
    /\ AddRouteDone(method, pattern, data,
                    AddRouteResult(methods, nodes, method, pattern, data))
    /\ UNCHANGED <<pc, call, r, requestPath, wildcard, wildcardResult,
                   wildcardPath, result, heap, walk, err, peer>>

\* m.Match(method, path, &result): entry of the call, up to the loop.
Match(method, path) ==
    /\ pc = "idle"
    /\ call' = [method |-> method, path |-> path]
    /\ SetFrame(MatchBegin(methods, nodes, result, heap, method, path))
    /\ UNCHANGED <<methods, nodes, history, peer>>

\* One iteration of pathloop.
Pathloop ==
    /\ pc = "loop"
    /\ SetFrame(MatchLoop(nodes, Frame))
    /\ UNCHANGED <<methods, nodes, history, call, peer>>

\* The code after the loop, up to the return.
MatchReturn ==
    /\ pc = "end"
    /\ SetFrame(MatchEnd(nodes, Frame))
    /\ UNCHANGED <<methods, nodes, history, call, peer>>

Next ==
    \/ \E method \in AddMethods, pattern \in Patterns :
            AddRoute(method, pattern, Len(history) + 1)
    \/ \E method \in MatchMethods, path \in Paths : Match(method, path)
    \/ Pathloop
    \/ MatchReturn

Spec == Init /\ [][Next]_vars

(***************************************************************************)
(* What the registered patterns mean, read off the pattern text            *)
(***************************************************************************)
\* The segments of a pattern or of a path after the slashes are trimmed.
SegmentsOf(text) ==
    LET trimmed == TrimSlashes(text)
    IN  IF Len(trimmed) = 0 THEN <<>> ELSE Split(trimmed)

IsVariable(seg) == Len(seg) > 0 /\ seg[1] = ":"

IsWildcard(seg) == seg = <<"*">>

\* The constraint of a variable segment, EmptyString for a plain variable.
ExprOf(seg) ==
    IF IndexByte(seg, "(") # -1 THEN SliceFrom(seg, IndexByte(seg, "("))
    ELSE EmptyString

\* The name of a variable segment.
NameOf(seg) ==
    IF IndexByte(seg, "(") # -1 THEN SubSeq(seg, 2, IndexByte(seg, "("))
    ELSE SliceFrom(seg, 1)

\* The positions of the variable segments of a pattern, in order.
RECURSIVE VariablePositions(_, _)
VariablePositions(segs, i) ==
    IF i > Len(segs) THEN <<>>
    ELSE (IF IsVariable(segs[i]) THEN <<i>> ELSE <<>>)
            \o VariablePositions(segs, i + 1)

\* A pattern segment paired with a path segment.
SegmentAccepts(pseg, seg) ==
    IF IsVariable(pseg)
    THEN ExprOf(pseg) = EmptyString \/ MatchString(ExprOf(pseg), seg)
    ELSE pseg = seg

\* A pattern matches a path when their segments pair up one to one, a final
\* "*" taking the non-empty rest of the path.  Paths with an empty segment
\* match nothing.
PatternMatches(pattern, path) ==
    LET ps == SegmentsOf(pattern)
        qs == SegmentsOf(path)
        fixed == IF ps # <<>> /\ IsWildcard(ps[Len(ps)]) THEN Len(ps) - 1
                 ELSE Len(ps)
    IN  /\ \A i \in 1..Len(qs) : qs[i] # EmptyString
        /\ IF fixed = Len(ps) THEN Len(qs) = Len(ps) ELSE Len(qs) > fixed
        /\ \A i \in 1..fixed : SegmentAccepts(ps[i], qs[i])

\* The successful registrations for a method; the latest one of a pattern
\* stands for it.
Registered(method) ==
    {k \in 1..Len(history) :
        /\ history[k].method = method
        /\ history[k].err = NoError
        /\ \A j \in (k + 1)..Len(history) :
              ~(/\ history[j].method = method
                /\ history[j].err = NoError
                /\ SegmentsOf(history[j].pattern) = SegmentsOf(history[k].pattern))}

Done == pc = "done"

Succeeded == Done /\ err = NoError

\* The parameters of the finished call, as the caller reads them.
Params == ParamsOf(result, heap)

HasStar == \E i \in 1..Len(Params) : Params[i].Name = <<"*">>

\* The loop ended on its last part at a route that holds a payload.
LoopRecorded ==
    /\ walk # <<>>
    /\ walk[Len(walk)].last
    /\ walk[Len(walk)].to # NilRoute
    /\ nodes[walk[Len(walk)].to].data # NilData

\* The finished call took the wildcard fallback.
FellBack == Done /\ walk # <<>> /\ wildcard /\ ~LoopRecorded

(***************************************************************************)
(* C1.  For every successful Match the parameters carry, in order, the      *)
(* names of the variable list of the pattern whose payload is returned,    *)
(* and the value of the i-th parameter is the path segment that filled the *)
(* i-th variable segment of that pattern; after a wildcard fallback one    *)
(* more parameter, "*", follows them.                                      *)
(***************************************************************************)
C1_NamesAndValuesPositional ==
    (Succeeded /\ result.Data # NilData) =>
        LET ps == SegmentsOf(history[result.Data].pattern)
            qs == SegmentsOf(call.path)
            pos == VariablePositions(ps, 1)
            extra == IF FellBack THEN 1 ELSE 0
        IN  /\ Len(Params) = Len(pos) + extra
            /\ \A i \in 1..Len(pos) :
                  /\ pos[i] <= Len(qs)
                  /\ Params[i].Name = NameOf(ps[pos[i]])
                  /\ Params[i].Value = qs[pos[i]]

(***************************************************************************)
(* C2.  When Match falls back to a wildcard, the result holds the payload  *)
(* registered with the wildcard pattern and a parameter named "*" whose    *)
(* value is the path not yet consumed at the wildcard node;                *)
(* Result.Param("*") returns that value.                                   *)
(***************************************************************************)
C2_FallbackStarParam ==
    FellBack =>
        /\ err = NoError
        /\ result.Data = wildcardResult.Data
        /\ LET ps == SegmentsOf(history[result.Data].pattern)
           IN  ps # <<>> /\ IsWildcard(ps[Len(ps)])
        /\ HasStar
        /\ Param(result, heap, <<"*">>) = wildcardPath

(***************************************************************************)
(* C3.  Match returns ErrNotFound only when no pattern registered for the  *)
(* method matches the request path: whenever at least one registered       *)
(* pattern matches the path, Match succeeds.                               *)
(***************************************************************************)
C3_NotFoundOnlyWhenNoPatternMatches ==
    Done =>
        ((\E k \in Registered(call.method) :
                PatternMatches(history[k].pattern, call.path))
            => err = NoError)

(***************************************************************************)
(* C4.  Match reports success if and only if it recorded a payload: when   *)
(* it returns nil the Data is a registered payload, and when there is no   *)
(* payload, also for the path that normalizes to empty, it returns         *)
(* ErrNotFound.                                                            *)
(***************************************************************************)
C4_SuccessIffPayload ==
    Done =>
        /\ err = NoError =>
              /\ result.Data # NilData
              /\ result.Data \in 1..Len(history)
              /\ history[result.Data].err = NoError
        /\ result.Data = NilData => err = ErrNotFound

(***************************************************************************)
(* Steps of AddRoute, and what lookups return on a multiplexer             *)
(***************************************************************************)
\* The step is an AddRoute call; LastCall is the call it made.
AddStep == history' # history

LastCall == history'[Len(history')]

\* Every lookup of the model's methods and paths returns the same error,
\* payload and parameters on the two multiplexers.
SameLookups(ms1, ns1, ms2, ns2) ==
    \A method \in MatchMethods, path \in Paths :
        MatchResult(ms1, ns1, method, path) = MatchResult(ms2, ns2, method, path)

(***************************************************************************)
(* C5.  An AddRoute call that fails with ErrBadSyntax or with a regex      *)
(* compile error is harmless to lookups: for every method and every path   *)
(* Match returns the same error, payload and parameters after the failed   *)
(* call as before it.                                                      *)
(***************************************************************************)
C5_FailedAddKeepsLookups ==
    [][(AddStep /\ LastCall.err \in {ErrBadSyntax, ErrRegexp})
          => SameLookups(methods, nodes, methods', nodes')]_vars

(***************************************************************************)
(* C6.  AddRoute with a "*" segment in any position but the last returns   *)
(* ErrWildcardMisplaced and mutates nothing: the method map and all nodes  *)
(* are the same before and after the rejected call.                        *)
(***************************************************************************)
C6_MisplacedWildcardMutatesNothing ==
    [][(AddStep /\ WildcardMisplaced(SegmentsOf(LastCall.pattern)))
          => /\ LastCall.err = ErrWildcardMisplaced
             /\ methods' = methods
             /\ nodes' = nodes]_vars

(***************************************************************************)
(* The children of a route, read off its fields                            *)
(***************************************************************************)
\* The literals of the static children, in whichever form they are kept.
StaticLiterals(node) ==
    {node.indices[i] : i \in 1..Len(node.indices)}
        \cup (IF node.staticMap.isNil THEN {} ELSE DOMAIN node.staticMap.m)

\* The static child for a literal of StaticLiterals(node).
StaticChild(node, lit) ==
    IF \E i \in 1..Len(node.indices) : node.indices[i] = lit
    THEN node.static[CHOOSE i \in 1..Len(node.indices) : node.indices[i] = lit]
    ELSE node.staticMap.m[lit]

\* The regex children that accept a part, by position.
Accepting(node, part) ==
    {i \in 1..Len(node.variables) : MatchString(node.variables[i].expr, part)}

Min(S) == CHOOSE i \in S : \A j \in S : i <= j

Max(S) == CHOOSE i \in S : \A j \in S : j <= i

(***************************************************************************)
(* C7.  At every node of the Match walk, when the current segment equals   *)
(* the literal of a static child of that node, Match advances to that      *)
(* static child, never to a variable child, and captures no parameter.     *)
(***************************************************************************)
C7_StaticChildWins ==
    [][(pc = "loop" /\ NextPart(requestPath).part \in StaticLiterals(nodes[r]))
          => /\ r' = StaticChild(nodes[r], NextPart(requestPath).part)
             /\ result'.Params = result.Params]_vars

\* A finished walk took a static child at a node where a variable child
\* accepted the same segment.
C7_Witness ==
    /\ Done
    /\ \E i \in 1..Len(walk) :
          /\ walk[i].kind = "static"
          /\ VariableNext(nodes[walk[i].route], walk[i].part) # NilRoute

(***************************************************************************)
(* C8.  When no static child matches the current segment, Match advances   *)
(* to the first regex-variable child, in registration order, whose regex   *)
(* accepts the segment, and to the plain-variable child only when no regex *)
(* child accepts it.                                                       *)
(***************************************************************************)
C8_FirstAcceptingRegexThenPlain ==
    [][(pc = "loop" /\ NextPart(requestPath).part \notin StaticLiterals(nodes[r]))
          => LET node == nodes[r]
                 acc == Accepting(node, NextPart(requestPath).part)
             IN  IF acc # {} THEN r' = node.variables[Min(acc)].route
                 ELSE IF node.variable # NilRoute THEN r' = node.variable
                 ELSE r' = r /\ pc' = "end"]_vars

\* A finished walk took a variable step at a node with a plain-variable
\* child and two regex children that accept the segment.
C8_Witness ==
    /\ Done
    /\ \E i \in 1..Len(walk) :
          LET node == nodes[walk[i].route]
          IN  /\ walk[i].kind = "variable"
              /\ node.variable # NilRoute
              /\ Cardinality(Accepting(node, walk[i].part)) >= 2
              /\ walk[i].to = node.variables[1].route

(***************************************************************************)
(* C9.  A wildcard is only a fallback: Match returns the snapshot of a     *)
(* wildcard node only if the loop recorded no payload; when the walk       *)
(* reaches a route with a payload on the final segment, that payload is    *)
(* returned and no "*" parameter is added.                                 *)
(***************************************************************************)
C9_WildcardOnlyFallback ==
    [][pc = "end"
          => /\ result.Data # NilData
                  => /\ result'.Data = result.Data
                     /\ result'.Params = result.Params
                     /\ ~HasStar'
             /\ result'.Data # result.Data
                  => /\ result.Data = NilData
                     /\ wildcard
                     /\ result'.Data = wildcardResult.Data]_vars

\* A finished call passed a wildcard node and returned the payload of a
\* route below it.
C9_Witness ==
    /\ Succeeded
    /\ wildcard
    /\ LoopRecorded
    /\ wildcardResult.Data # NilData
    /\ result.Data # wildcardResult.Data

(***************************************************************************)
(* C10.  Registering the same (method, pattern) a second time succeeds and *)
(* replaces the payload and the names of its route: every lookup that      *)
(* returned the first payload returns the second instead, with the same    *)
(* error and parameters, and no lookup returns the first payload any more. *)
(***************************************************************************)
\* The earlier successful registrations of the pattern of call h.
Earlier(h) ==
    {k \in 1..Len(history) :
        /\ history[k].method = h.method
        /\ history[k].err = NoError
        /\ SegmentsOf(history[k].pattern) = SegmentsOf(h.pattern)}

C10_ReRegistrationReplaces ==
    [][(AddStep /\ Earlier(LastCall) # {})
          => /\ LastCall.err = NoError
             /\ \A method \in MatchMethods, path \in Paths :
                  LET before == MatchResult(methods, nodes, method, path)
                      after == MatchResult(methods', nodes', method, path)
                      first == history[Max(Earlier(LastCall))].data
                  IN  /\ after.Data \notin {history[k].data : k \in Earlier(LastCall)}
                      /\ before.Data = first
                            => after = [before EXCEPT !.Data = LastCall.data]]_vars

\* A finished call returned the payload of a second registration of a
\* pattern with a variable, with its parameter bound.
C10_Witness ==
    /\ Succeeded
    /\ result.Data \in 1..Len(history)
    /\ \E k \in 1..(result.Data - 1) :
          /\ history[k].err = NoError
          /\ history[k].method = history[result.Data].method
          /\ history[k].pattern = history[result.Data].pattern
    /\ LET ps == SegmentsOf(history[result.Data].pattern)
           pos == VariablePositions(ps, 1)
       IN  /\ pos # <<>>
           /\ Len(Params) >= 1
           /\ Params[1].Name = NameOf(ps[pos[1]])

(***************************************************************************)
(* Calls whose pattern or path carries extra leading and trailing slashes  *)
(***************************************************************************)
\* P, /P/ and //P///: the numbers of slashes put before and after a text.
SlashForms == {<<0, 0>>, <<1, 1>>, <<2, 3>>}

Slashes(n) == [i \in 1..n |-> "/"]

Slashed(text, form) == Slashes(form[1]) \o text \o Slashes(form[2])

SlashPatterns ==
    {
      <<>>,                        \* the root
      <<"a", "/", ":", "x">>,      \* a/:x
      <<"a", "/", "*">>            \* a/*
    }

SlashPaths ==
    {
      <<>>,                        \* the root
      <<"a">>,                     \* a
      <<"a", "/", "1">>,           \* a/1
      <<"a", "/", "1", "/", "b">>  \* a/1/b
    }

NextSlash ==
    \/ \E pattern \in SlashPatterns, form \in SlashForms :
            AddRoute("GET", Slashed(pattern, form), Len(history) + 1)
    \/ \E path \in SlashPaths, form \in SlashForms :
            Match("GET", Slashed(path, form))
    \/ Pathloop
    \/ MatchReturn

SpecSlash == Init /\ [][NextSlash]_vars

(***************************************************************************)
(* C11.  Leading and trailing slashes added to a request path or to a      *)
(* pattern never change the outcome: Match on P, /P/ and //P/// returns    *)
(* the same error, payload and parameters, and AddRoute of /P/ leaves the  *)
(* multiplexer that AddRoute of P leaves.                                  *)
(***************************************************************************)
C11_SlashIdempotence ==
    /\ Done =>
          \A path \in SlashPaths, form \in SlashForms :
              call.path = Slashed(path, form)
                  => Outcome(Frame) = MatchResult(methods, nodes, call.method, path)
    /\ pc = "idle" =>
          /\ \A path \in SlashPaths, form \in SlashForms :
                MatchResult(methods, nodes, "GET", Slashed(path, form))
                    = MatchResult(methods, nodes, "GET", path)
          /\ \A pattern \in SlashPatterns, form \in SlashForms :
                AddRouteResult(methods, nodes, "GET", Slashed(pattern, form),
                               Len(history) + 1)
                    = AddRouteResult(methods, nodes, "GET", pattern,
                                     Len(history) + 1)

\* A call on //P/// returned, with a parameter, the payload of a route that
\* was registered with slashes around its pattern.
C11_Witness ==
    /\ Succeeded
    /\ result.Data # NilData
    /\ \E path \in SlashPaths : path # <<>> /\ call.path = Slashed(path, <<2, 3>>)
    /\ \E pattern \in SlashPatterns :
          history[result.Data].pattern = Slashed(pattern, <<1, 1>>)
    /\ Len(Params) >= 1

(***************************************************************************)
(* Registrations under two method tokens that differ in case only          *)
(***************************************************************************)
MethodTokens == {"GET", "get"}

LookupTokens == {"GET", "get", "POST"}

MethodPatterns ==
    {
      <<"/">>,
      <<"/", "a">>,
      <<"/", "a", "/", ":", "x">>,
      <<"/", "a", "/", "b", "/", "/", "a">>,   \* ErrBadSyntax
      <<"/", "a", "/", "*", "/", "b">>         \* ErrWildcardMisplaced
    }

MethodPaths ==
    {
      <<"/">>,
      <<"/", "a">>,
      <<"/", "a", "/", "1">>,
      <<"/", "a", "/", "b">>
    }

NextMethods ==
    \/ \E method \in MethodTokens, pattern \in MethodPatterns :
            AddRoute(method, pattern, Len(history) + 1)
    \/ \E method \in LookupTokens, path \in MethodPaths : Match(method, path)
    \/ Pathloop
    \/ MatchReturn

SpecMethods == Init /\ [][NextMethods]_vars

(***************************************************************************)
(* C12.  Method trees are independent: an AddRoute call for a method       *)
(* token, successful or failed, leaves the result of Match unchanged for   *)
(* every other token and every path; tokens are compared byte for byte, so *)
(* "GET" and "get" name different trees.                                   *)
(***************************************************************************)
C12_MethodTreesIndependent ==
    [][AddStep =>
          \A method \in LookupTokens \ {LastCall.method}, path \in MethodPaths :
              MatchResult(methods', nodes', method, path)
                  = MatchResult(methods, nodes, method, path)]_vars

\* A lookup under "GET" returned the payload of a route of "GET" after the
\* same pattern was registered under "get" and after a registration under
\* "get" failed.
C12_Witness ==
    /\ Succeeded
    /\ call.method = "GET"
    /\ result.Data # NilData
    /\ history[result.Data].method = "GET"
    /\ \E j \in (result.Data + 1)..Len(history) :
          /\ history[j].method = "get"
          /\ history[j].err = NoError
          /\ history[j].pattern = history[result.Data].pattern
    /\ \E j \in (result.Data + 1)..Len(history) :
          /\ history[j].method = "get"
          /\ history[j].err # NoError

(***************************************************************************)
(* Two Match calls in progress at once on one multiplexer                  *)
(*                                                                         *)
(* Call 1 is the call of the variables pc .. err, call 2 the call of peer. *)
(* Each has its own Result.  The steps of the two calls interleave; no     *)
(* AddRoute runs while either is in progress.                              *)
(***************************************************************************)
\* One set of wildcard, wildcardResult and wildcardPath for all calls, as
\* package-level variables would be.
LocalsOf_Shared(id) == 1

\* Lines 306-308: wildcard, wildcardResult and wildcardPath are locals of the
\* call: call id works on the set of call id.
LocalsOf(id) == id

\* The frame call 2 works on.
PeerFrame ==
    IF LocalsOf(2) = 2 THEN peer.frame
    ELSE [peer.frame EXCEPT !.wildcard = wildcard,
                            !.wildcardResult = wildcardResult,
                            !.wildcardPath = wildcardPath]

\* Call 2 leaves frame f.
SetPeer(f) ==
    /\ peer' = [peer EXCEPT !.frame = f]
    /\ IF LocalsOf(2) = 2
       THEN UNCHANGED <<wildcard, wildcardResult, wildcardPath>>
       ELSE /\ wildcard' = f.wildcard
            /\ wildcardResult' = f.wildcardResult
            /\ wildcardPath' = f.wildcardPath
    /\ UNCHANGED <<methods, nodes, history, pc, call, r, requestPath, result,
                   heap, walk, err>>

\* Call 2: entry of the call, up to the loop.
PeerMatch(method, path) ==
    /\ peer.frame.pc = "idle"
    /\ LET f == MatchBegin(methods, nodes, PeerFrame.result, PeerFrame.heap,
                           method, path)
       IN  /\ peer' = [call |-> [method |-> method, path |-> path], frame |-> f]
           /\ IF LocalsOf(2) = 2
              THEN UNCHANGED <<wildcard, wildcardResult, wildcardPath>>
              ELSE /\ wildcard' = f.wildcard
                   /\ wildcardResult' = f.wildcardResult
                   /\ wildcardPath' = f.wildcardPath
    /\ UNCHANGED <<methods, nodes, history, pc, call, r, requestPath, result,
                   heap, walk, err>>

\* Call 2: one iteration of pathloop.
PeerPathloop ==
    /\ peer.frame.pc = "loop"
    /\ SetPeer(MatchLoop(nodes, PeerFrame))

\* Call 2: the code after the loop, up to the return.
PeerReturn ==
    /\ peer.frame.pc = "end"
    /\ SetPeer(MatchEnd(nodes, PeerFrame))

ConcurrentPatterns ==
    {
      <<"/", "a", "/", "*">>,
      <<"/", "a", "/", ":", "x", "/", "*">>,
      <<"/", "a", "/", ":", "x", "/", "b">>
    }

ConcurrentPaths ==
    {
      <<"/", "a", "/", "b">>,
      <<"/", "a", "/", "1", "/", "b">>,
      <<"/", "a", "/", "1", "/", "a">>,
      <<"/", "b">>
    }

NextConcurrent ==
    \/ \E pattern \in ConcurrentPatterns :
            AddRoute("GET", pattern, Len(history) + 1)
    \/ \E path \in ConcurrentPaths : Match("GET", path)
    \/ Pathloop
    \/ MatchReturn
    \/ \E path \in ConcurrentPaths : PeerMatch("GET", path)
    \/ PeerPathloop
    \/ PeerReturn

SpecConcurrent == Init /\ [][NextConcurrent]_vars

(***************************************************************************)
(* C13.  Match never mutates the multiplexer: no step of a Match call      *)
(* changes the method map or a node.  Two Match calls whose steps          *)
(* interleave on one multiplexer, each with its own Result, return what    *)
(* each returns when it runs alone.                                        *)
(***************************************************************************)
C13_MatchLeavesMuxAlone ==
    [][/\ history' = history => (methods' = methods /\ nodes' = nodes)
       /\ pc' = "done" =>
             [err |-> err', Data |-> result'.Data,
              Params |-> ParamsOf(result', heap')]
                 = MatchResult(methods, nodes, call'.method, call'.path)
       /\ peer'.frame.pc = "done" =>
             Outcome(peer'.frame)
                 = MatchResult(methods, nodes, peer'.call.method,
                               peer'.call.path)]_vars

\* Both calls are past their loops at once, each holding a snapshot of its
\* own, on different paths.
C13_Witness ==
    /\ pc = "end"
    /\ peer.frame.pc = "end"
    /\ wildcard
    /\ peer.frame.wildcard
    /\ wildcardPath # peer.frame.wildcardPath
    /\ wildcardResult # peer.frame.wildcardResult

(***************************************************************************)
(* Match calls one after another on one Result                             *)
(***************************************************************************)
\* m.Match(method, path, &result) on the Result the last call returned in.
MatchAgain(method, path) ==
    /\ pc = "done"
    /\ call' = [method |-> method, path |-> path]
    /\ SetFrame(MatchBegin(methods, nodes, result, heap, method, path))
    /\ UNCHANGED <<methods, nodes, history, peer>>

ReusePatterns ==
    {
      <<"/", "a", "/", "b">>,
      <<"/", "a", "/", ":", "x">>,
      <<"/", "a", "/", ":", "y", "/", ":", "z">>,
      <<"/", "a", "/", "*">>
    }

ReusePaths ==
    {
      <<"/">>,
      <<"/", "a", "/", "b">>,
      <<"/", "a", "/", "1">>,
      <<"/", "a", "/", "1", "/", "b">>,
      <<"/", "b">>
    }

NextReuse ==
    \/ \E pattern \in ReusePatterns :
            AddRoute("GET", pattern, Len(history) + 1)
    \/ \E method \in MatchMethods, path \in ReusePaths : Match(method, path)
    \/ Pathloop
    \/ MatchReturn
    \/ \E method \in MatchMethods, path \in ReusePaths : MatchAgain(method, path)

SpecReuse == Init /\ [][NextReuse]_vars

(***************************************************************************)
(* C14.  A Result can be reused: the error, Data and Params of a Match     *)
(* call are those the call returns on a zero Result, whatever an earlier   *)
(* call, successful or not, left in the Result; after ErrNotFound Data is  *)
(* nil.                                                                    *)
(***************************************************************************)
C14_ResultReusable ==
    Done =>
        /\ Outcome(Frame) = MatchResult(methods, nodes, call.method, call.path)
        /\ err = ErrNotFound => result.Data = NilData

\* A call returned ErrNotFound in a Result whose inline array still holds,
\* past the parameters of this call, a parameter of an earlier call.
C14_Witness ==
    /\ Done
    /\ err = ErrNotFound
    /\ \E i \in (result.Params.len + 1)..InlineCap : result.params[i] # ZeroParam

(***************************************************************************)
(* Routes with as many variables as the inline array of Result has slots   *)
(***************************************************************************)
AllocPatterns ==
    {
      \* /:a/:b/:c/:d/:e/:f/:g/:h/:i/:j
      <<"/", ":", "a", "/", ":", "b", "/", ":", "c", "/", ":", "d", "/",
        ":", "e", "/", ":", "f", "/", ":", "g", "/", ":", "h", "/", ":",
        "i", "/", ":", "j">>,
      \* /:a/:b/:c/:d/:e/:f/:g/:h/:i/:j/*
      <<"/", ":", "a", "/", ":", "b", "/", ":", "c", "/", ":", "d", "/",
        ":", "e", "/", ":", "f", "/", ":", "g", "/", ":", "h", "/", ":",
        "i", "/", ":", "j", "/", "*">>,
      <<"/", ":", "a", "/", "*">>
    }

AllocPaths ==
    {
      \* /1/1/1/1/1/1/1/1/1/1
      <<"/", "1", "/", "1", "/", "1", "/", "1", "/", "1", "/", "1", "/",
        "1", "/", "1", "/", "1", "/", "1">>,
      \* /1/1/1/1/1/1/1/1/1/1/b
      <<"/", "1", "/", "1", "/", "1", "/", "1", "/", "1", "/", "1", "/",
        "1", "/", "1", "/", "1", "/", "1", "/", "b">>,
      <<"/", "1", "/", "b", "/", "b">>
    }

NextAlloc ==
    \/ \E pattern \in AllocPatterns :
            AddRoute("GET", pattern, Len(history) + 1)
    \/ \E path \in AllocPaths : Match("GET", path)
    \/ Pathloop
    \/ MatchReturn

SpecAlloc == Init /\ [][NextAlloc]_vars

(***************************************************************************)
(* C15.  When every pattern given to AddRoute has at most 10 variables,    *)
(* Match allocates nothing: result.Params stays a slice of the inline      *)
(* array result.params, during the walk and in the wildcard fallback.      *)
(***************************************************************************)
C15_NoAllocation ==
    (\A k \in 1..Len(history) :
        Len(VariablePositions(SegmentsOf(history[k].pattern), 1)) <= InlineCap)
        => result.Params.base # "heap"

(***************************************************************************)
(* C16.  Match never indexes past the end of result.Params: when the names *)
(* of a route are bound, the route has at most as many names as the result *)
(* has parameters, so no Match call panics.                                *)
(***************************************************************************)
C16_NameBindingInRange ==
    /\ pc = "end" =>
          LET f == WildcardFallback(Frame)
          IN  f.result.Data # NilData
                  => Len(nodes[f.r].paramNames) <= f.result.Params.len
    /\ Done => err # ErrIndexOutOfRange

(***************************************************************************)
(* C17.  A pattern X without variables and the pattern X/*, registered for *)
(* one method with different payloads in either order, keep their payloads *)
(* apart: Match on the path X returns the payload of X and no "*"          *)
(* parameter, and Match on X/tail, when the walk finds no route below X,   *)
(* returns the payload of X/*.                                             *)
(***************************************************************************)
C17_WildcardPayloadApart ==
    Done =>
        \A i \in Registered(call.method), j \in Registered(call.method) :
            LET X == SegmentsOf(history[i].pattern)
                P == SegmentsOf(call.path)
            IN  (/\ SegmentsOf(history[j].pattern) = X \o << <<"*">> >>
                 /\ X # <<>>
                 /\ \A k \in 1..Len(X) : ~IsVariable(X[k]))
                    => /\ P = X =>
                            /\ err = NoError
                            /\ result.Data = history[i].data
                            /\ ~HasStar
                       /\ (/\ Len(P) > Len(X)
                           /\ SubSeq(P, 1, Len(X)) = X
                           /\ FellBack)
                            => /\ err = NoError
                               /\ result.Data = history[j].data

(***************************************************************************)
(* C18.  The walk of Match is bounded by the length of the path: it makes  *)
(* at most one loop iteration, and appends at most one parameter, for each *)
(* "/"-separated segment of the path without its leading and trailing      *)
(* slashes, also when the path has an empty segment inside, as a//b.       *)
(***************************************************************************)
C18_WalkBoundedByPath ==
    pc \in {"loop", "end", "done"} =>
        LET segments == Len(Split(TrimSlashes(call.path)))
        IN  /\ Len(walk) <= segments
            /\ Cardinality({k \in 1..Len(walk) : walk[k].kind = "variable"})
                  <= segments

(***************************************************************************)
(* Routes with enough static children under one route for the conversion   *)
(* of the parallel slices to a map                                         *)
(***************************************************************************)
\* Five literals under the root, registered in this order.
PromoteOrder ==
    << <<"/", "a">>, <<"/", "b">>, <<"/", "c">>, <<"/", "d">>, <<"/", "e">> >>

\* Patterns registered at any time.
PromoteFree ==
    {
      <<"/", "f">>,
      <<"/", "g">>,
      <<"/", "a", "/", "b">>,
      <<"/", ":", "x">>
    }

PromotePatterns == {PromoteOrder[i] : i \in 1..Len(PromoteOrder)} \cup PromoteFree

\* The pattern follows its predecessor in PromoteOrder, if it has one.
InOrder(pattern) ==
    \A i \in 2..Len(PromoteOrder) :
        pattern = PromoteOrder[i]
            => \E k \in 1..Len(history) : history[k].pattern = PromoteOrder[i - 1]

\* m.AddRoute(method, pattern, data) with a pattern not given before, the
\* patterns of PromoteOrder in their order.
AddRouteOnce(method, pattern, data) ==
    /\ pc = "idle"
    /\ peer.frame.pc = "idle"
    /\ \A k \in 1..Len(history) : history[k].pattern # pattern
    /\ InOrder(pattern)
    /\ AddRouteDone(method, pattern, data,
                    AddRouteResult(methods, nodes, method, pattern, data))
    /\ UNCHANGED <<pc, call, r, requestPath, wildcard, wildcardResult,
                   wildcardPath, result, heap, walk, err, peer>>

PromotePaths ==
    {
      <<"/", "a">>,
      <<"/", "a", "/", "b">>,
      <<"/", "e">>,
      <<"/", "f">>,
      <<"/", "g">>
    }

NextPromote ==
    \/ \E pattern \in PromotePatterns :
            AddRouteOnce("GET", pattern, Len(history) + 1)
    \/ \E path \in PromotePaths : Match("GET", path)
    \/ Pathloop
    \/ MatchReturn

SpecPromote == Init /\ [][NextPromote]_vars

\* Route x has its static children in the map after the step, not before.
Promoted(x) == nodes[x].staticMap.isNil /\ ~nodes'[x].staticMap.isNil

\* On the step every static child route x had before is reached by the same
\* literal and is unchanged, and the one literal added leads to a new route.
ChildrenKept(x) ==
    LET old == StaticLiterals(nodes[x])
        new == StaticLiterals(nodes'[x]) \ old
    IN  /\ \A lit \in old :
              /\ lit \in StaticLiterals(nodes'[x])
              /\ StaticChild(nodes'[x], lit) = StaticChild(nodes[x], lit)
              /\ nodes'[StaticChild(nodes[x], lit)]
                    = nodes[StaticChild(nodes[x], lit)]
        /\ Cardinality(new) = 1
        /\ \A lit \in new : StaticChild(nodes'[x], lit) > Len(nodes)

\* The frame a call with a fresh Result ends in before the step.
RunBefore(path) ==
    MatchRun(nodes, MatchBegin(methods, nodes, ZeroResult, <<>>, "GET", path))

\* The call looked up, at route x, the literal that the step adds to x.
LooksUpNew(f, x) ==
    \E k \in 1..Len(f.walk) :
        /\ f.walk[k].route = x
        /\ f.walk[k].part \in StaticLiterals(nodes'[x]) \ StaticLiterals(nodes[x])

(***************************************************************************)
(* C19, as stated.  The conversion of a route's parallel slices to the map *)
(* preserves the mapping: every literal registered before leads to the     *)
(* same child, which is unchanged; the one new literal leads to a new      *)
(* route; and every path that matched before gets the same result from     *)
(* Match after.                                                            *)
(***************************************************************************)
C19_PromotionPreservesAllPaths ==
    [][AddStep =>
          \A x \in 1..Len(nodes) :
              Promoted(x) =>
                  /\ ChildrenKept(x)
                  /\ \A path \in PromotePaths :
                        RunBefore(path).err = NoError
                            => MatchResult(methods', nodes', "GET", path)
                                  = Outcome(RunBefore(path))]_vars

(***************************************************************************)
(* C19, amended.  The conversion of a route's parallel slices to the map   *)
(* preserves the mapping: every literal registered before leads to the     *)
(* same child, which is unchanged; the one new literal leads to a new      *)
(* route; and every path that matched before gets the same result from     *)
(* Match after, except a path whose walk looked up the new literal at the  *)
(* converted route: it matched through a variable sibling before and takes *)
(* the new static child after.                                             *)
(***************************************************************************)
C19_PromotionPreservesChildren ==
    [][AddStep =>
          \A x \in 1..Len(nodes) :
              Promoted(x) =>
                  /\ ChildrenKept(x)
                  /\ \A path \in PromotePaths :
                        (/\ RunBefore(path).err = NoError
                         /\ ~LooksUpNew(RunBefore(path), x))
                            => MatchResult(methods', nodes', "GET", path)
                                  = Outcome(RunBefore(path))]_vars

\* A call returned, through the map of a route with six static children
\* and a variable child, the payload of a route registered before the
\* sixth literal.
C19_Witness ==
    /\ Succeeded
    /\ result.Data # NilData
    /\ walk[1].kind = "static"
    /\ ~nodes[walk[1].route].staticMap.isNil
    /\ nodes[walk[1].route].variable # NilRoute
    /\ Cardinality(StaticLiterals(nodes[walk[1].route])) = StaticSliceMax + 1
    /\ \E j \in (result.Data + 1)..Len(history) :
          /\ Len(SegmentsOf(history[j].pattern)) = 1
          /\ ~IsVariable(SegmentsOf(history[j].pattern)[1])

\* The route keeps its static children in the parallel slices only.
ListForm(node) ==
    /\ node.staticMap.isNil
    /\ Len(node.indices) = Len(node.static)
    /\ Cardinality(StaticLiterals(node)) = Len(node.indices)

\* The route keeps its static children in the map only.
MapForm(node) ==
    /\ ~node.staticMap.isNil
    /\ node.indices = <<>>
    /\ node.static = <<>>

(***************************************************************************)
(* C20, as stated.  A route keeps its static children in one form at a     *)
(* time: in the parallel slices while it has fewer than 5 static children, *)
(* in the map once it has 5 or more; a route in map form has empty slices. *)
(***************************************************************************)
C20_MapFromFiveChildren ==
    \A x \in 1..Len(nodes) :
        IF Cardinality(StaticLiterals(nodes[x])) < StaticSliceMax
        THEN ListForm(nodes[x])
        ELSE MapForm(nodes[x])

(***************************************************************************)
(* C20, amended.  A route keeps its static children in one form at a time: *)
(* in the parallel slices while it has at most 5 static children, in the   *)
(* map from the moment a 6th static child is added; a route in map form    *)
(* has empty slices, in every state after the conversion.                  *)
(***************************************************************************)
C20_MapFromSixthChild ==
    \A x \in 1..Len(nodes) :
        IF Cardinality(StaticLiterals(nodes[x])) <= StaticSliceMax
        THEN ListForm(nodes[x])
        ELSE MapForm(nodes[x])

\* One route holds seven static children in its map, one of them added after
\* the conversion, while another route holds its child in the slices.
C20_Witness ==
    /\ \E x \in 1..Len(nodes) :
          /\ MapForm(nodes[x])
          /\ Cardinality(StaticLiterals(nodes[x])) = StaticSliceMax + 2
    /\ \E y \in 1..Len(nodes) :
          /\ ListForm(nodes[y])
          /\ Len(nodes[y].indices) >= 1

(***************************************************************************)
(* Routes with several regex children under one route                      *)
(***************************************************************************)
RegexPatterns ==
    {
      <<"/", "a", "/", ":", "n", "(", "[", "0", "-", "9", "]", "+", ")">>,  \* /a/:n([0-9]+)
      <<"/", "a", "/", ":", "m", "(", "[", "a", "-", "z", "]", "+", ")">>,  \* /a/:m([a-z]+)
      <<"/", "a", "/", ":", "p", "(", "\\", "d", "+", ")">>,  \* /a/:p(\d+)
      <<"/", "a", "/", ":", "i", "(", "(", "?", "i", ")", "B", ")">>,  \* /a/:i((?i)B)
      <<"/", "a", "/", ":", "u", "(", "[", "[", ":", "a", "l", "p", "h", "a", ":", "]", "]", "+", ")">>,  \* /a/:u([[:alpha:]]+)
      <<"/", "a", "/", ":", "r", "(", "(", "a", "{", "2", "}", ")", "{", "5", "0", "1", "}", ")">>,  \* /a/:r((a{2}){501})
      <<"/", "a", "/", ":", "q", "(", "[", "0", "-", "9", "]", "+", ")", "/", "b">>,  \* /a/:q([0-9]+)/b
      <<"/", "a", "/", ":", "k", "(", ".">>,  \* /a/:k(.
      <<"/", "a", "/", ":", "m", "(", "[", "a", "-", "z", "]", "+", ")", "/", ":", "k", "(", "[", "a", "-">>  \* /a/:m([a-z]+)/:k([a-
    }

RegexPaths ==
    {
      <<"/", "a", "/", "1">>,  \* /a/1
      <<"/", "a", "/", "a">>,  \* /a/a
      <<"/", "a", "/", "1", "/", "b">>,  \* /a/1/b
      <<"/", "a", "/", "b">>,  \* /a/b
      <<"/", "a", "/", "B">>,  \* /a/B
      <<"/", "a", "/", "b", "1">>,  \* /a/b1
      <<"/", "a", "/", "1", "2">>   \* /a/12
    }

NextRegex ==
    \/ \E pattern \in RegexPatterns :
            AddRoute("GET", pattern, Len(history) + 1)
    \/ \E path \in RegexPaths : Match("GET", path)
    \/ Pathloop
    \/ MatchReturn

SpecRegex == Init /\ [][NextRegex]_vars

\* The expression texts of the regex children of a route, in order.
Exprs(node) == [i \in 1..Len(node.variables) |-> node.variables[i].expr]

\* The route the segments of a pattern lead to from route x, from segment i
\* on, regex segments by their expression text; NilRoute when a child is
\* missing.
RECURSIVE RouteOf(_, _, _, _)
RouteOf(ns, x, segs, i) ==
    IF x = NilRoute \/ i > Len(segs) THEN x
    ELSE LET seg == segs[i]
             node == ns[x]
             hit == {j \in 1..Len(node.variables) :
                        node.variables[j].expr = ExprOf(seg)}
             next ==
                 IF IsWildcard(seg) THEN x
                 ELSE IF IsVariable(seg)
                 THEN IF ExprOf(seg) = EmptyString THEN node.variable
                      ELSE IF hit = {} THEN NilRoute
                      ELSE node.variables[Min(hit)].route
                 ELSE IF seg \in StaticLiterals(node) THEN StaticChild(node, seg)
                 ELSE NilRoute
         IN  RouteOf(ns, next, segs, i + 1)

\* The route of a pattern under the root of GET.
RouteOfPattern(ms, ns, pattern) ==
    IF "GET" \in DOMAIN ms THEN RouteOf(ns, ms["GET"], SegmentsOf(pattern), 1)
    ELSE NilRoute

(***************************************************************************)
(* C21.  At every route the regex children have pairwise distinct          *)
(* expression texts and stay in registration order: an AddRoute step       *)
(* leaves the children a route had in place, adds at most one child at     *)
(* the end of a list, with an expression that compiles and that the list   *)
(* did not hold, and a pattern whose route existed before the step leads   *)
(* to the same route after it.                                             *)
(***************************************************************************)
C21_RegexChildrenDistinctInOrder ==
    [][AddStep =>
          /\ \A x \in 1..Len(nodes') :
                LET new == Exprs(nodes'[x])
                IN  /\ \A i \in 1..Len(new), j \in 1..Len(new) :
                          new[i] = new[j] => i = j
                    /\ \A i \in 1..Len(new) : RegexpCompiles(new[i])
          /\ \A x \in 1..Len(nodes) :
                LET old == nodes[x].variables
                    new == nodes'[x].variables
                IN  /\ Len(old) <= Len(new)
                    /\ Len(new) <= Len(old) + 1
                    /\ SubSeq(new, 1, Len(old)) = old
          /\ \A pattern \in RegexPatterns :
                RouteOfPattern(methods, nodes, pattern) # NilRoute
                    => RouteOfPattern(methods', nodes', pattern)
                          = RouteOfPattern(methods, nodes, pattern)
          /\ LastCall.err = NoError
                => nodes'[RouteOfPattern(methods', nodes', LastCall.pattern)].data
                      = LastCall.data]_vars

\* A route holds two regex children; one of them was registered by one
\* pattern and reused by a later one with another name, and a registration
\* failed to compile its expression.
C21_Witness ==
    /\ \E x \in 1..Len(nodes) : Len(nodes[x].variables) >= 2
    /\ \E i \in 1..Len(history), j \in 1..Len(history) :
          /\ i < j
          /\ history[i].err = NoError
          /\ history[j].err = NoError
          /\ history[i].pattern
                = <<"/", "a", "/", ":", "n", "(", "[", "0", "-", "9", "]", "+", ")">>
          /\ history[j].pattern
                = <<"/", "a", "/", ":", "q", "(", "[", "0", "-", "9", "]", "+", ")", "/", "b">>
    /\ \E k \in 1..Len(history) : history[k].err = ErrRegexp

\* The remaining request path at the start of loop iteration k: the path
\* without its leading and trailing slashes after k - 1 parts were taken.
RECURSIVE RemainingAt(_, _)
RemainingAt(path, k) ==
    IF k <= 1 THEN path ELSE RemainingAt(NextPart(path).rest, k - 1)

\* The loop iterations of the call that started at a wildcard-bearing route.
WildcardVisits == {k \in 1..Len(walk) : nodes[walk[k].route].wildcard}

\* The values the walk captured before iteration k, in order.
RECURSIVE CapturedBefore(_, _)
CapturedBefore(w, k) ==
    IF k <= 1 THEN <<>>
    ELSE CapturedBefore(w, k - 1)
            \o (IF w[k - 1].kind = "variable" THEN <<w[k - 1].part>> ELSE <<>>)

(***************************************************************************)
(* C22.  When the walk of a Match call visited several wildcard-bearing    *)
(* routes and the call falls back, the result is the one of the deepest    *)
(* of them: the payload of that route, the values captured on the way to   *)
(* it, and then a "*" parameter whose value is the path that remained at   *)
(* that route; values captured below it are dropped.                       *)
(***************************************************************************)
C22_DeepestWildcardWins ==
    (FellBack /\ Cardinality(WildcardVisits) >= 2 /\ err # ErrIndexOutOfRange) =>
        LET deepest == Max(WildcardVisits)
            values == CapturedBefore(walk, deepest)
        IN  /\ result.Data = nodes[walk[deepest].route].data
            /\ Len(Params) = Len(values) + 1
            /\ \A i \in 1..Len(values) : Params[i].Value = values[i]
            /\ Params[Len(Params)].Value
                  = RemainingAt(TrimSlashes(call.path), deepest)

====
